---------------------------- MODULE Spec2Model ----------------------------
(***************************************************************************)
(* A model of the process scheduler, the segmented heap allocator          *)
(* (performance_tuning.c) and the paged virtual-memory manager with its    *)
(* process table (kernel_usermode.c, usermode_syscall_handlers.c,          *)
(* page_fault_handler.c) of the tiny operating system.                     *)
(*                                                                         *)
(* Pointers are integers.  A PCB pointer is the index of the PCB in        *)
(* processes[]; a block pointer is a byte address inside memory_pool.pool. *)
(* Statistics that the code only ever increments and never reads           *)
(* (total_allocated, total_freed, allocation_failures, cache_hits,         *)
(* cache_misses, context_switches, cpu_time_used, ...) are not state; the  *)
(* outcome of the last call is recorded in the history variable last.      *)
(***************************************************************************)
EXTENDS Integers, Sequences, FiniteSets, TLC

(***************************************************************************)
(* Program constants of performance_tuning.c                               *)
(***************************************************************************)
MAX_PROCESSES == 64
TIME_QUANTUM_BASE == 10
CACHE_LINE_SIZE == 64
PAGE_SIZE == 4096
MEMORY_POOL_SIZE == 1024 * 1024

PRIORITY_IDLE == 0
PRIORITY_LOW == 1
PRIORITY_NORMAL == 2
PRIORITY_HIGH == 3
PRIORITY_REALTIME == 4
PRIORITY_COUNT == 5

STATE_CREATED == 0
STATE_READY == 1
STATE_RUNNING == 2
STATE_BLOCKED == 3
STATE_TERMINATED == 4

\* the wait-time lead beyond which select_next_process replaces its candidate
AGING_THRESHOLD == 1000

\* sizeof(memory_block_t): 32 bytes of fields, aligned(CACHE_LINE_SIZE)
HEADER_SIZE == CACHE_LINE_SIZE

\* the split threshold of split_block beyond the header
SPLIT_SLACK == 32

\* the free count after which optimized_free coalesces
COALESCE_THRESHOLD == 100

NULL == 0

\* kernel_usermode.c: paging geometry and layout
PAGE_ENTRIES == 1024
\* 0xC0000000
KERNEL_BASE == -1073741824
\* 0x08048000
USER_BASE == 134512640

PAGE_PRESENT == 1
PAGE_WRITE == 2
PAGE_USER == 4

PROCESS_UNUSED == 0
PROCESS_READY == 1
PROCESS_RUNNING == 2
PROCESS_BLOCKED == 3
PROCESS_ZOMBIE == 4

\* struct process processes[16]
PROCESS_SLOTS == 16

\* process_schedule switches at most once in SCHEDULE_TICKS timer ticks
SCHEDULE_TICKS == 10

\* (uint32_t)kernel_page_directory: the page-aligned address the linker gives
\* the static array, in the kernel image at 1 MiB
KERNEL_PAGE_DIRECTORY == 1048576

\* the address of memory_pool.pool (any non-null cache-line-aligned address)
POOL_BASE == MEMORY_POOL_SIZE

Priorities == PRIORITY_IDLE .. PRIORITY_REALTIME

(***************************************************************************)
(* Bounds of the model                                                     *)
(***************************************************************************)
\* request sizes the callers of optimized_malloc pass
AllocSizes == {1, 64, 128, 192, 256}

\* the classes the callers of optimized_malloc and optimized_free pass
AllocClasses == {PRIORITY_NORMAL, PRIORITY_HIGH}

\* the priorities the callers of create_process pass
CallerPriorities == {PRIORITY_NORMAL, PRIORITY_HIGH}

\* frees are made while fragmentation_count < MaxFrees
MaxFrees == 4

\* request sizes of the direct allocator calls made next to the scheduler
KernelAllocSizes == {PAGE_SIZE}

\* create_process is called while next_pid <= MaxPid
MaxPid == 3

\* the time-stamp counter is read while it is below MaxTsc
MaxTsc == 7

\* the advance of the time-stamp counter between two reads by handlers
TscSteps == {1}

\* direct frees are made while fragmentation_count < MaxKernelFrees
MaxKernelFrees == 2

\* paging_init assumes 64 MiB, a bitmap of 2048 bytes; the model installs
\* 8 * MemoryBitmapBytes page frames
MemoryBitmapBytes == 2

\* paging_init maps the first 16 MiB of kernel space; the model maps the
\* first KernelMapPages pages of them, identically and at KERNEL_BASE. As in
\* the code, these are more pages than kernel_main allocates frames
KernelMapPages == 9

\* process_create is called while next_pid <= MaxUserPid
MaxUserPid == 4

\* timer interrupts arrive while timer_ticks < MaxTicks
MaxTicks == 20

\* paging_free_frame is called at most MaxFrameFrees times
MaxFrameFrees == 1

\* the frames that direct calls of paging_free_frame free: the first frame,
\* the frame that test_user_space maps, and frames past those of boot
FreedFrames == {0, 6, 9, 12}

\* the pages by which a brk system call raises the break; the larger one
\* is more than the frames installed
BrkGrowth == {1, 32}

\* the arguments of direct calls of paging_map_page: a page of the region
\* that holds the initial break, and a page of a region of its own
MapVirts == {USER_BASE + 2 * PAGE_SIZE, 4 * 1024 * 1024}
MapPhys == {9 * PAGE_SIZE}
MapFlags == {PAGE_WRITE, PAGE_PRESENT + PAGE_WRITE + PAGE_USER}

\* SpecFit starts with FitCount free blocks, each of a size in FitSizes
FitCount == 2
FitSizes == {64, 128, 256}

\* SpecFit allocates while fewer than FitMaxLive blocks are live
FitMaxLive == 1

\* in the runs that fill the process tables, destroy_process is called on
\* at most MaxTableDestroys PCBs; next_pid and k_next_pid stop growing when
\* the tables are full
MaxTableDestroys == 1
TablePriorities == {PRIORITY_NORMAL}

\* the allocate-and-free run calls optimized_free CycleFrees times: past the
\* second coalescing pass
CycleFrees == 205
CycleSizes == {64, 128}
CycleClasses == {PRIORITY_NORMAL, PRIORITY_HIGH}

\* rdtsc() ticks between two calls of optimized_scheduler in SpecAging
AgingStep == 100

\* calls of optimized_scheduler a Ready PCB may be passed over once its wait
\* exceeds AGING_THRESHOLD: more than one whole Realtime quantum
AgingCalls == 60

\* calls of optimized_scheduler in a run of SpecAging
AgingMaxCalls == 130

\* the PCBs of the ready-queue configurations that selection starts from
SelectPids == {1, 2, 3}

\* the quantum a Ready PCB of such a configuration has left
SelectSlices == {0, 2}

\* the instants at which the PCBs of such a configuration were made Ready
SelectReadyTimes == {1, 2, 3, 1500, 1501}

\* the time-stamp counter when selection starts
SelectStart == 1501

\* optimized_scheduler is called at most SelectMaxCalls times from there
SelectMaxCalls == 4

(***************************************************************************)
(* 32-bit unsigned arithmetic.  The model checker's integers are 32-bit    *)
(* signed, so a uint32_t is held as the two's-complement integer with the  *)
(* same bit pattern: 0xFFFFFFFF is -1 and 0xC0000000 is -1073741824.  Sums *)
(* and differences of such integers have the bit pattern of the C result;  *)
(* the order of uint32_t is ULess below.                                   *)
(***************************************************************************)
UINT32_MAX == -1

ULess(a, b) == IF (a >= 0) = (b >= 0) THEN a < b ELSE a >= 0

ULessEq(a, b) == a = b \/ ULess(a, b)

\* x & ~(CACHE_LINE_SIZE - 1)
MaskCacheLine(x) == x - (x % CACHE_LINE_SIZE)

\* size = (size + CACHE_LINE_SIZE - 1) & ~(CACHE_LINE_SIZE - 1)
AlignSize(size) == MaskCacheLine(size + CACHE_LINE_SIZE - 1)

\* x >> k, for 0 < k < 32
Shr(x, k) == IF x >= 0 THEN x \div (2 ^ k) ELSE (x \div (2 ^ k)) + 2 ^ (32 - k)

\* x & 0xFFFFF000 and x & 0xFFF
FrameBase(x) == x - (x % PAGE_SIZE)
PageOffset(x) == x % PAGE_SIZE

\* a | b on the low n bits of two non-negative integers
RECURSIVE BitOr(_, _, _)
BitOr(a, b, n) ==
    IF n = 0 THEN 0
    ELSE 2 * BitOr(a \div 2, b \div 2, n - 1)
         + (IF a % 2 = 1 \/ b % 2 = 1 THEN 1 ELSE 0)

\* word | flags, for flags below PAGE_SIZE
OrFlags(word, flags) == FrameBase(word) + BitOr(PageOffset(word), flags, 12)

\* word & flag # 0, for a flag of one bit
HasFlag(word, flag) == (PageOffset(word) \div flag) % 2 = 1

\* virt >> 22 and (virt >> 12) & 0x3FF
PageDirIndex(virt) == Shr(virt, 22)
PageTableIndex(virt) == Shr(virt, 12) % PAGE_ENTRIES

VARIABLES
    memory_pool,        \* [hdr, free_list, fragmentation_count]
    processes,          \* the PCBs written so far, by index
    ready_queues,       \* head PCB of each priority's queue
    current_process,    \* PCB pointer or NULL
    next_pid,
    scheduler_running,  \* 0 before performance_tuning_init, 1 after
    tsc,                \* the value the next rdtsc() is above
    hung,               \* a handler is in a loop that never ends
    returned,           \* history: the PCBs create_process has returned
    live,               \* history: the allocations returned and not yet freed
    misfreed,           \* history: some block was freed to another class
    last,               \* history: the last call and its result
    \* kernel_usermode.c
    memory_bitmap,          \* the frame indices whose bit is set
    memory_total_pages,     \* 0 before paging_init
    memory_used_pages,
    kernel_page_directory,  \* index -> entry, for the entries that are not 0
    physical_memory,        \* frame address -> the table written there
    k_processes,            \* processes[16]
    k_current_process,      \* current_process, an index of processes
    k_next_pid,             \* next_pid
    cr3,                    \* the page directory loaded
    timer_ticks,
    last_schedule,
    mapped,       \* history: virt -> phys of the last paging_map_page of virt
    brk_pages,    \* history: <<pid, virt>> of the pages mapped by brk for pid
    frame_frees   \* history: the number of paging_free_frame calls

\* the state of kernel_usermode.c
vmVars == <<memory_bitmap, memory_total_pages, memory_used_pages,
            kernel_page_directory, physical_memory, k_processes,
            k_current_process, k_next_pid, cr3, timer_ticks, last_schedule,
            mapped, brk_pages, frame_frees>>

\* the state of performance_tuning.c
ptVars == <<memory_pool, processes, ready_queues, current_process, next_pid,
            scheduler_running, tsc, hung, returned, live, misfreed>>

vars == <<ptVars, vmVars, last>>

(***************************************************************************)
(* Segmented heap allocator                                                *)
(***************************************************************************)
\* the state of memory_pool after memset(&memory_pool, 0, ...) or as a
\* zero-initialised static: no header written, every free list empty
ZeroPool ==
    [hdr |-> << >>,
     free_list |-> [p \in Priorities |-> NULL],
     fragmentation_count |-> 0]

memory_pool_init ==
    [ZeroPool EXCEPT
        !.hdr = POOL_BASE :> [size |-> MEMORY_POOL_SIZE - HEADER_SIZE,
                              flags |-> 0, next |-> NULL, prev |-> NULL],
        !.free_list[PRIORITY_NORMAL] = POOL_BASE]

\* the blocks reached from head by next-links, in order; the walk stops at
\* NULL or at the first block met twice
RECURSIVE ListFrom(_, _, _)
ListFrom(hdr, current, seen) ==
    IF current = NULL \/ current \in seen THEN << >>
    ELSE <<current>> \o ListFrom(hdr, hdr[current].next, seen \cup {current})

FreeList(mp, priority) == ListFrom(mp.hdr, mp.free_list[priority], {})

RECURSIVE EndsInCycle(_, _, _)
EndsInCycle(hdr, current, seen) ==
    IF current = NULL THEN FALSE
    ELSE IF current \in seen THEN TRUE
    ELSE EndsInCycle(hdr, hdr[current].next, seen \cup {current})

RECURSIVE find_best_fit_loop(_, _, _, _, _, _)
find_best_fit_loop(hdr, list, i, size, best_block, best_size) ==
    IF i > Len(list) THEN best_block
    ELSE LET current == list[i] IN
         IF ULessEq(size, hdr[current].size) /\ ULess(hdr[current].size, best_size)
         THEN IF hdr[current].size = size
              THEN current
              ELSE find_best_fit_loop(hdr, list, i + 1, size, current,
                                      hdr[current].size)
         ELSE find_best_fit_loop(hdr, list, i + 1, size, best_block, best_size)

\* find_best_fit taking the first block that holds size
find_best_fit_first(mp, size, priority) ==
    LET list == FreeList(mp, priority)
        fits == {i \in 1 .. Len(list) : ULessEq(size, mp.hdr[list[i]].size)}
    IN  IF fits = {} THEN NULL
        ELSE list[CHOOSE i \in fits : \A j \in fits : i <= j]

find_best_fit(mp, size, priority) ==
    find_best_fit_loop(mp.hdr, FreeList(mp, priority), 1, size, NULL,
                       UINT32_MAX)

split_block(hdr, block, size) ==
    IF ULess(size + HEADER_SIZE + SPLIT_SLACK, hdr[block].size)
    THEN LET new_block == block + HEADER_SIZE + size
             h1 == (new_block :> [size |-> hdr[block].size - size - HEADER_SIZE,
                                  flags |-> 0,
                                  next |-> hdr[block].next,
                                  prev |-> block]) @@ hdr
             h2 == IF h1[block].next # NULL
                   THEN [h1 EXCEPT ![h1[block].next].prev = new_block]
                   ELSE h1
         IN  [h2 EXCEPT ![block].next = new_block, ![block].size = size]
    ELSE hdr

\* lines 249-258: remove block from the free list of its class
unlink_block(mp, block, priority) ==
    LET h0 == mp.hdr
        h1 == IF h0[block].prev # NULL
              THEN [h0 EXCEPT ![h0[block].prev].next = h0[block].next]
              ELSE h0
        fl == IF h0[block].prev # NULL
              THEN mp.free_list
              ELSE [mp.free_list EXCEPT ![priority] = h0[block].next]
        h2 == IF h1[block].next # NULL
              THEN [h1 EXCEPT ![h1[block].next].prev = h1[block].prev]
              ELSE h1
    IN  [mp EXCEPT !.hdr = h2, !.free_list = fl]

\* optimized_malloc with the block left in its free list
optimized_malloc_linked(mp, size0, priority) ==
    LET size == AlignSize(size0)
        Take(block) ==
            IF block = NULL
            THEN [mp |-> mp, ptr |-> NULL]
            ELSE [mp |-> [mp EXCEPT !.hdr = [split_block(mp.hdr, block, size)
                                               EXCEPT ![block].flags = 1]],
                  ptr |-> block + HEADER_SIZE]
    IN  Take(find_best_fit(mp, size, priority))

\* the result is [mp |-> the pool afterwards, ptr |-> the pointer returned]
optimized_malloc(mp, size0, priority) ==
    LET size == AlignSize(size0)
        \* lines 260-268: split the unlinked block and mark it allocated
        Split(m1, block) ==
            [mp |-> [m1 EXCEPT !.hdr = [split_block(m1.hdr, block, size)
                                           EXCEPT ![block].flags = 1]],
             ptr |-> block + HEADER_SIZE]
        Take(block) ==
            IF block = NULL
            THEN [mp |-> mp, ptr |-> NULL]
            ELSE Split(unlink_block(mp, block, priority), block)
    IN  Take(find_best_fit(mp, size, priority))

RECURSIVE coalesce_list(_, _)
coalesce_list(hdr, current) ==
    IF current = NULL \/ hdr[current].next = NULL THEN hdr
    ELSE LET next == hdr[current].next IN
         IF current + HEADER_SIZE + hdr[current].size = next
         THEN LET h1 == [hdr EXCEPT
                            ![current].size = hdr[current].size + HEADER_SIZE
                                              + hdr[next].size,
                            ![current].next = hdr[next].next]
                  h2 == IF hdr[next].next # NULL
                        THEN [h1 EXCEPT ![hdr[next].next].prev = current]
                        ELSE h1
              IN  coalesce_list(h2, current)
         ELSE coalesce_list(hdr, next)

RECURSIVE coalesce_from(_, _)
coalesce_from(mp, priority) ==
    IF priority >= PRIORITY_COUNT THEN mp
    ELSE coalesce_from(
             [mp EXCEPT !.hdr = coalesce_list(mp.hdr, mp.free_list[priority])],
             priority + 1)

\* coalesce_blocks walking the free list of one class only
coalesce_blocks_one_class(mp) ==
    [mp EXCEPT !.hdr = coalesce_list(mp.hdr, mp.free_list[PRIORITY_NORMAL])]

\* each merge also decrements fragmentation_count, which optimized_free, the
\* only caller, overwrites with 0 right after the pass
coalesce_blocks(mp) == coalesce_from(mp, 0)

optimized_free(mp, ptr, priority) ==
    IF ptr = NULL THEN mp
    ELSE LET block == ptr - HEADER_SIZE
             head == mp.free_list[priority]
             h1 == [mp.hdr EXCEPT ![block].flags = 0,
                                  ![block].next = head,
                                  ![block].prev = NULL]
             h2 == IF head # NULL THEN [h1 EXCEPT ![head].prev = block] ELSE h1
             m1 == [mp EXCEPT !.hdr = h2, !.free_list[priority] = block]
         IN  IF mp.fragmentation_count > COALESCE_THRESHOLD
             THEN [coalesce_blocks(m1) EXCEPT !.fragmentation_count = 0]
             ELSE [m1 EXCEPT !.fragmentation_count = mp.fragmentation_count + 1]

\* the bytes of the blocks of list, from place i on
RECURSIVE SumSizes(_, _, _)
SumSizes(hdr, list, i) ==
    IF i > Len(list) THEN 0
    ELSE hdr[list[i]].size + SumSizes(hdr, list, i + 1)

RECURSIVE FreeBytesFrom(_, _)
FreeBytesFrom(mp, priority) ==
    IF priority >= PRIORITY_COUNT THEN 0
    ELSE SumSizes(mp.hdr, FreeList(mp, priority), 1)
         + FreeBytesFrom(mp, priority + 1)

\* the free bytes that the free lists reach
TotalFreeBytes(mp) == FreeBytesFrom(mp, 0)

\* what a caller of optimized_malloc(size, class) could see of the pool
\* before the call: the free list of the class, its block sizes and the
\* free bytes of all lists
PoolBefore(mp, class) ==
    [free_list |-> FreeList(mp, class),
     sizes |-> [i \in 1 .. Len(FreeList(mp, class)) |->
                   mp.hdr[FreeList(mp, class)[i]].size],
     free_bytes |-> TotalFreeBytes(mp)]

(***************************************************************************)
(* Process control blocks and the scheduler                                *)
(***************************************************************************)
\* a PCB after memset(proc, 0, sizeof(process_t))
ZeroPCB ==
    [pid |-> 0, state |-> STATE_CREATED, priority |-> PRIORITY_IDLE,
     time_quantum |-> 0, stack_start |-> 0, stack_size |-> 0,
     timeslice_remaining |-> 0, wait_time |-> 0, last_ready_time |-> 0,
     next |-> NULL, prev |-> NULL]

\* lines 308-320: the PCB that create_process writes
new_pcb(npid, priority, stack_start) ==
    [ZeroPCB EXCEPT
        !.pid = npid,
        !.state = STATE_CREATED,
        !.priority = priority,
        !.time_quantum = TIME_QUANTUM_BASE * (priority + 1),
        !.stack_size = PAGE_SIZE,
        !.stack_start = stack_start]

\* create_process without the test of next_pid against MAX_PROCESSES
create_process_unchecked(procs, mp, npid, priority) ==
    LET proc == npid
        WithStack(m) ==
            [procs |-> (proc :> new_pcb(npid, priority, m.ptr)) @@ procs,
             mp |-> m.mp,
             next_pid |-> npid + 1,
             ret |-> IF m.ptr = NULL THEN NULL ELSE proc]
    IN  WithStack(optimized_malloc(mp, PAGE_SIZE, priority))

\* the result is [procs, mp, next_pid, ret]; ret is the PCB pointer or NULL
create_process(procs, mp, npid, priority) ==
    IF npid >= MAX_PROCESSES
    THEN [procs |-> procs, mp |-> mp, next_pid |-> npid, ret |-> NULL]
    ELSE LET proc == npid
             WithStack(m) ==
                 [procs |-> (proc :> new_pcb(npid, priority, m.ptr)) @@ procs,
                  mp |-> m.mp,
                  next_pid |-> npid + 1,
                  ret |-> IF m.ptr = NULL THEN NULL ELSE proc]
         IN  WithStack(optimized_malloc(mp, PAGE_SIZE, priority))

\* destroy_process without the reset of stack_start
destroy_process_keeps_stack(procs, mp, proc) ==
    LET p1 == [procs EXCEPT ![proc].state = STATE_TERMINATED] IN
    IF p1[proc].stack_start # 0
    THEN [procs |-> p1,
          mp |-> optimized_free(mp, p1[proc].stack_start, p1[proc].priority)]
    ELSE [procs |-> p1, mp |-> mp]

\* the result is [procs, mp]
destroy_process(procs, mp, proc) ==
    LET p1 == [procs EXCEPT ![proc].state = STATE_TERMINATED] IN
    IF p1[proc].stack_start # 0
    THEN [procs |-> [p1 EXCEPT ![proc].stack_start = 0],
          mp |-> optimized_free(mp, p1[proc].stack_start, p1[proc].priority)]
    ELSE [procs |-> p1, mp |-> mp]

\* the result is [procs, rq]
add_to_ready_queue(procs, rq, proc, now) ==
    LET prio == procs[proc].priority
        head == rq[prio]
        p1 == [procs EXCEPT ![proc].state = STATE_READY,
                            ![proc].last_ready_time = now,
                            ![proc].next = head,
                            ![proc].prev = NULL]
        p2 == IF head # NULL THEN [p1 EXCEPT ![head].prev = proc] ELSE p1
    IN  [procs |-> p2, rq |-> [rq EXCEPT ![prio] = proc]]

\* one queue of update_wait_times; the result is [procs, hang]
RECURSIVE update_wait_queue(_, _, _, _)
update_wait_queue(procs, current, now, seen) ==
    IF current = NULL THEN [procs |-> procs, hang |-> FALSE]
    ELSE IF current \in seen THEN [procs |-> procs, hang |-> TRUE]
    ELSE update_wait_queue(
             IF procs[current].state = STATE_READY
             THEN [procs EXCEPT ![current].wait_time =
                       now - procs[current].last_ready_time]
             ELSE procs,
             procs[current].next, now, seen \cup {current})

RECURSIVE update_wait_from(_, _, _, _)
update_wait_from(procs, rq, priority, now) ==
    IF priority >= PRIORITY_COUNT THEN [procs |-> procs, hang |-> FALSE]
    ELSE LET Then(r) ==
                 IF r.hang THEN r
                 ELSE update_wait_from(r.procs, rq, priority + 1, now)
         IN  Then(update_wait_queue(procs, rq[priority], now, {}))

update_wait_times(procs, rq, now) == update_wait_from(procs, rq, 0, now)

\* update_process_stats without the decrement of line 349
update_process_stats_kept(procs, proc) == procs

\* the accounting of update_process_stats that the scheduler reads
update_process_stats(procs, proc) ==
    [procs EXCEPT ![proc].timeslice_remaining =
                      procs[proc].timeslice_remaining - 1]

\* unlink_process without the update of the successor's prev link
unlink_process_forward(procs, rq, current, priority) ==
    [procs |-> IF procs[current].prev # NULL
               THEN [procs EXCEPT ![procs[current].prev].next = procs[current].next]
               ELSE procs,
     rq |-> IF procs[current].prev # NULL
            THEN rq
            ELSE [rq EXCEPT ![priority] = procs[current].next]]

\* lines 375-382: unlink current from the queue of priority
unlink_process(procs, rq, current, priority) ==
    LET p1 == IF procs[current].prev # NULL
              THEN [procs EXCEPT ![procs[current].prev].next = procs[current].next]
              ELSE procs
        q1 == IF procs[current].prev # NULL
              THEN rq
              ELSE [rq EXCEPT ![priority] = procs[current].next]
        p2 == IF p1[current].next # NULL
              THEN [p1 EXCEPT ![p1[current].next].prev = p1[current].prev]
              ELSE p1
    IN  [procs |-> p2, rq |-> q1]

\* lines 388-405: the candidate test on one PCB of the queue of priority
consider_candidate(st, current, priority) ==
    LET pcb == st.procs[current] IN
    IF pcb.state = STATE_READY /\ ULess(0, pcb.timeslice_remaining)
    THEN IF priority > st.highest_priority
         THEN [st EXCEPT !.highest_priority = priority,
                         !.selected = current,
                         !.min_wait_time = pcb.wait_time]
         ELSE IF priority = st.highest_priority
         THEN IF ULess(st.min_wait_time + AGING_THRESHOLD, pcb.wait_time)
              THEN [st EXCEPT !.selected = current,
                              !.min_wait_time = pcb.wait_time,
                              !.starvation_preventions = @ + 1]
              ELSE IF pcb.wait_time = st.min_wait_time /\ st.selected = NULL
              THEN [st EXCEPT !.selected = current]
              ELSE st
         ELSE st
    ELSE st

\* lines 370-408: the walk over one queue; a walk that comes back to a PCB
\* with nothing changed since never ends
RECURSIVE select_queue(_, _, _, _)
select_queue(st, priority, current, seen) ==
    IF current = NULL THEN st
    ELSE IF <<current, st.procs, st.rq>> \in seen THEN [st EXCEPT !.hang = TRUE]
    ELSE LET seen1 == seen \cup {<<current, st.procs, st.rq>>} IN
         IF st.procs[current].state = STATE_TERMINATED
         THEN LET next == st.procs[current].next
                  Reaped(u, d) == [st EXCEPT !.procs = d.procs, !.rq = u.rq,
                                             !.mp = d.mp]
                  Reap(u) == Reaped(u, destroy_process(u.procs, st.mp, current))
              IN  select_queue(
                      Reap(unlink_process(st.procs, st.rq, current, priority)),
                      priority, next, seen1)
         ELSE select_queue(consider_candidate(st, current, priority),
                           priority, st.procs[current].next, seen1)

\* the first pass taking the queues from Idle up to Realtime
RECURSIVE select_pass_up(_, _)
select_pass_up(st, priority) ==
    IF priority < PRIORITY_IDLE THEN st
    ELSE LET queue == PRIORITY_REALTIME - priority
             Then(s1) == IF s1.hang \/ s1.selected # NULL THEN s1
                         ELSE select_pass_up(s1, priority - 1)
         IN  Then(select_queue(st, queue, st.rq[queue], {}))

RECURSIVE select_pass(_, _)
select_pass(st, priority) ==
    IF priority < PRIORITY_IDLE THEN st
    ELSE LET Then(s1) == IF s1.hang \/ s1.selected # NULL THEN s1
                         ELSE select_pass(s1, priority - 1)
         IN  Then(select_queue(st, priority, st.rq[priority], {}))

\* lines 420-428: the first Ready PCB of a queue without quantum, or NULL
RECURSIVE refresh_queue(_, _, _)
refresh_queue(procs, current, seen) ==
    IF current = NULL THEN [found |-> NULL, hang |-> FALSE]
    ELSE IF current \in seen THEN [found |-> NULL, hang |-> TRUE]
    ELSE IF procs[current].state = STATE_READY
            /\ procs[current].timeslice_remaining = 0
    THEN [found |-> current, hang |-> FALSE]
    ELSE refresh_queue(procs, procs[current].next, seen \cup {current})

RECURSIVE refresh_pass(_, _)
refresh_pass(st, priority) ==
    IF priority < PRIORITY_IDLE THEN st
    ELSE LET Then(r) ==
                 IF r.hang THEN [st EXCEPT !.hang = TRUE]
                 ELSE IF r.found # NULL
                 THEN [st EXCEPT !.procs[r.found].timeslice_remaining =
                                     TIME_QUANTUM_BASE * (priority + 1),
                                 !.selected = r.found,
                                 !.refreshed = TRUE]
                 ELSE refresh_pass(st, priority - 1)
         IN  Then(refresh_queue(st.procs, st.rq[priority], {}))

\* the result is [procs, rq, mp, selected, highest_priority, min_wait_time,
\* starvation_preventions (of this call), refreshed, hang]
select_next_process(procs, rq, mp) ==
    LET st0 == [procs |-> procs, rq |-> rq, mp |-> mp, selected |-> NULL,
                highest_priority |-> 0, min_wait_time |-> UINT32_MAX,
                starvation_preventions |-> 0, refreshed |-> FALSE,
                hang |-> FALSE]
        Then(st1) == IF st1.hang \/ st1.selected # NULL THEN st1
                     ELSE refresh_pass(st1, PRIORITY_REALTIME)
    IN  Then(select_pass(st0, PRIORITY_REALTIME))

\* the result is [procs, rq, current]
context_switch(procs, rq, current, next, now) ==
    IF next = NULL THEN [procs |-> procs, rq |-> rq, current |-> current]
    ELSE LET Run(a) ==
                 [procs |-> [a.procs EXCEPT ![next].state = STATE_RUNNING],
                  rq |-> a.rq,
                  current |-> next]
         IN  Run(IF current # NULL /\ current # next
                 THEN add_to_ready_queue(
                          [procs EXCEPT ![current].state = STATE_READY],
                          rq, current, now)
                 ELSE [procs |-> procs, rq |-> rq])

\* the result is [procs, rq, mp, current, hang, outcome, next, at_select,
\* starvation_preventions, refreshed]; outcome is "off", "hang", "keep", "idle",
\* "stay" (the selected PCB is the current one) or "switch"
optimized_scheduler(procs, rq, mp, current, running, now) ==
    LET none == [procs |-> procs, rq |-> rq, mp |-> mp, current |-> current,
                 hang |-> FALSE, outcome |-> "off", next |-> NULL,
                 at_select |-> << >>, starvation_preventions |-> 0,
                 refreshed |-> FALSE]
    \* lines 553-572: act on what select_next_process returned
        Switched(base, c) ==
            [base EXCEPT !.procs = c.procs, !.rq = c.rq,
                         !.current = c.current, !.outcome = "switch"]
        Decide(s, base) ==
            IF s.hang THEN [base EXCEPT !.hang = TRUE, !.outcome = "hang"]
            ELSE IF s.selected = NULL
            THEN IF current # NULL /\ s.procs[current].state = STATE_RUNNING
                 THEN [base EXCEPT !.outcome = "keep"]
                 ELSE [base EXCEPT !.outcome = "idle"]
            ELSE IF s.selected # current
            THEN Switched(base, context_switch(s.procs, s.rq, current,
                                               s.selected, now))
            ELSE [base EXCEPT !.outcome = "stay"]
        AfterSelect(s) ==
            Decide(s, [none EXCEPT !.procs = s.procs, !.rq = s.rq,
                                   !.mp = s.mp, !.next = s.selected,
                                   !.at_select = [procs |-> s.procs,
                                                  rq |-> s.rq],
                                   !.starvation_preventions =
                                       s.starvation_preventions,
                                   !.refreshed = s.refreshed])
        \* lines 540-551: account for the current process, then select
        Expire(p1) ==
            IF current # NULL /\ ULessEq(p1[current].timeslice_remaining, 0)
            THEN [p1 EXCEPT ![current].state = STATE_READY]
            ELSE p1
        AfterWait(w) ==
            IF w.hang THEN [none EXCEPT !.hang = TRUE, !.outcome = "hang"]
            ELSE AfterSelect(select_next_process(
                     Expire(IF current # NULL
                            THEN update_process_stats(w.procs, current)
                            ELSE w.procs),
                     rq, mp))
    IN
    IF running = 0 THEN none
    ELSE AfterWait(update_wait_times(procs, rq, now))

\* the result is [mp, procs, rq, current, next_pid, ret]
performance_tuning_init(procs, npid, now) ==
    LET rq0 == [p \in Priorities |-> NULL]
        Started(c, a) ==
            [mp |-> c.mp, procs |-> a.procs, rq |-> a.rq,
             current |-> c.ret, next_pid |-> c.next_pid, ret |-> c.ret]
        Created(c) ==
            Started(c, IF c.ret # NULL
                       THEN add_to_ready_queue(c.procs, rq0, c.ret, now)
                       ELSE [procs |-> c.procs, rq |-> rq0])
    IN  Created(create_process(procs, memory_pool_init, npid, PRIORITY_HIGH))

(***************************************************************************)
(* kernel_usermode.c: page frames, page tables and the process table       *)
(***************************************************************************)
\* entry i of a page directory or page table, held as index -> entry for
\* the entries that are not 0
Entry(table, i) == IF i \in DOMAIN table THEN table[i] ELSE 0

\* the table in the frame at addr
Table(mem, addr) == IF addr \in DOMAIN mem THEN mem[addr] ELSE << >>

\* table[i] = word
SetEntry(table, i, word) ==
    IF word = 0 THEN [j \in DOMAIN table \ {i} |-> table[j]]
    ELSE (i :> word) @@ table

LowestOf(S) == CHOOSE i \in S : \A j \in S : i <= j

\* the paging state the functions below work on; allocs is the history of
\* the paging_alloc_frame calls of the handler under way
Paging ==
    [memory_bitmap |-> memory_bitmap,
     memory_total_pages |-> memory_total_pages,
     memory_used_pages |-> memory_used_pages,
     kernel_page_directory |-> kernel_page_directory,
     physical_memory |-> physical_memory,
     mapped |-> mapped,
     allocs |-> << >>]

ClearFrames(pg) ==
    {i \in 0 .. pg.memory_total_pages - 1 : i \notin pg.memory_bitmap}

\* paging_alloc_frame taking the highest clear frame
paging_alloc_frame_highest(pg) ==
    LET Take(i) ==
            [pg |-> [pg EXCEPT
                        !.memory_bitmap = @ \cup {i},
                        !.memory_used_pages = @ + 1,
                        !.allocs = Append(@, [ret |-> i * PAGE_SIZE,
                                              full |-> FALSE])],
             ret |-> i * PAGE_SIZE]
    IN  IF ClearFrames(pg) = {}
        THEN [pg |-> [pg EXCEPT !.allocs = Append(@, [ret |-> 0,
                                                      full |-> TRUE])],
              ret |-> 0]
        ELSE Take(CHOOSE i \in ClearFrames(pg) :
                      \A j \in ClearFrames(pg) : j <= i)

\* the result is [pg, ret]
paging_alloc_frame(pg) ==
    LET Take(i) ==
            [pg |-> [pg EXCEPT
                        !.memory_bitmap = @ \cup {i},
                        !.memory_used_pages = @ + 1,
                        !.allocs = Append(@, [ret |-> i * PAGE_SIZE,
                                              full |-> FALSE])],
             ret |-> i * PAGE_SIZE]
    IN  IF ClearFrames(pg) = {}
        THEN [pg |-> [pg EXCEPT !.allocs = Append(@, [ret |-> 0,
                                                      full |-> TRUE])],
              ret |-> 0]
        ELSE Take(LowestOf(ClearFrames(pg)))

paging_free_frame(pg, addr) ==
    LET frame == Shr(addr, 12) IN
    IF ULess(frame, pg.memory_total_pages)
    THEN [pg EXCEPT !.memory_bitmap = @ \ {frame},
                    !.memory_used_pages = @ - 1]
    ELSE pg

paging_map_page(pg, virt, phys, flags) ==
    LET page_dir_index == PageDirIndex(virt)
        page_table_index == PageTableIndex(virt)
        page_table ==
            FrameBase(Entry(pg.kernel_page_directory, page_dir_index))
        present == BitOr(flags, PAGE_PRESENT, 12)
        \* lines 488-490
        Map(p, table) ==
            [p EXCEPT
                !.physical_memory =
                    (table :> SetEntry(Table(p.physical_memory, table),
                                       page_table_index,
                                       OrFlags(phys, present))) @@ @,
                !.mapped = (virt :> phys) @@ @]
        \* lines 478-485
        Create(a) ==
            Map([a.pg EXCEPT
                    !.kernel_page_directory =
                        SetEntry(@, page_dir_index, OrFlags(a.ret, present)),
                    !.physical_memory = (a.ret :> << >>) @@ @],
                a.ret)
    IN  IF page_table = 0
        THEN Create(paging_alloc_frame(pg))
        ELSE Map(pg, page_table)

\* lines 494-511, for any page directory
walk(mem, directory, virt) ==
    LET page_table == FrameBase(Entry(directory, PageDirIndex(virt)))
        page_entry == Entry(Table(mem, page_table), PageTableIndex(virt))
    IN  IF page_table = 0 THEN 0
        ELSE IF ~HasFlag(page_entry, PAGE_PRESENT) THEN 0
        ELSE FrameBase(page_entry) + PageOffset(virt)

paging_get_physical_address(pg, virt) ==
    walk(pg.physical_memory, pg.kernel_page_directory, virt)

\* lines 421-429: one of the two mapping loops of paging_init
RECURSIVE map_kernel_pages(_, _, _)
map_kernel_pages(pg, base, page) ==
    IF page >= KernelMapPages THEN pg
    ELSE map_kernel_pages(
             paging_map_page(pg, base + page * PAGE_SIZE, page * PAGE_SIZE,
                             PAGE_PRESENT + PAGE_WRITE),
             base, page + 1)

paging_init(pg) ==
    map_kernel_pages(
        map_kernel_pages(
            [pg EXCEPT !.memory_total_pages = 8 * MemoryBitmapBytes,
                       !.memory_used_pages = 0,
                       !.memory_bitmap = {},
                       !.kernel_page_directory = << >>],
            0, 0),
        KERNEL_BASE, 0)

\* a slot of the zero-initialised processes array; the registers saved in
\* esp and eip, the exit code and the name are left out
ZeroProcess ==
    [pid |-> 0, parent_pid |-> 0, state |-> PROCESS_UNUSED, cr3 |-> 0,
     kernel_stack |-> 0, user_stack |-> 0, page_directory |-> 0, brk |-> 0]

Slots == 0 .. PROCESS_SLOTS - 1

\* the first index of a scan over the slots, or -1
FirstSlot(S) == IF S = {} THEN -1 ELSE LowestOf(S)

\* the result is [pg, procs, next_pid, ret]
process_create(pg, procs, npid, current) ==
    LET slot == FirstSlot({i \in Slots : procs[i].state = PROCESS_UNUSED})
        \* lines 553-570
        Enrol(d, k, u) ==
            [pg |-> u.pg,
             procs |-> [procs EXCEPT ![slot] =
                           [pid |-> npid,
                            parent_pid |-> current,
                            state |-> PROCESS_READY,
                            cr3 |-> d.ret,
                            kernel_stack |-> k.ret + PAGE_SIZE,
                            user_stack |-> u.ret + PAGE_SIZE,
                            page_directory |-> d.ret,
                            brk |-> USER_BASE + PAGE_SIZE]],
             next_pid |-> npid + 1,
             ret |-> npid]
        \* lines 547-551
        Stacks(d, k) == Enrol(d, k, paging_alloc_frame(k.pg))
        \* lines 539-546
        Copy(d) ==
            Stacks(d, paging_alloc_frame(
                          [d.pg EXCEPT !.physical_memory =
                              (d.ret :> d.pg.kernel_page_directory) @@ @]))
    IN  IF slot = -1
        THEN [pg |-> pg, procs |-> procs, next_pid |-> npid, ret |-> 0]
        ELSE Copy(paging_alloc_frame(pg))

\* process_switch without the load of the page-table-base register
process_switch_stale(ps, pid) ==
    LET target == FirstSlot({i \in Slots : /\ ps.procs[i].pid = pid
                                           /\ ps.procs[i].state = PROCESS_READY})
        saved == IF ps.procs[ps.current].state = PROCESS_RUNNING
                 THEN [ps.procs EXCEPT ![ps.current].state = PROCESS_READY]
                 ELSE ps.procs
    IN  IF target = -1 THEN ps
        ELSE [procs |-> [saved EXCEPT ![target].state = PROCESS_RUNNING],
              current |-> target,
              cr3 |-> ps.cr3]

\* ps is [procs, current, cr3]
process_switch(ps, pid) ==
    LET target == FirstSlot({i \in Slots : /\ ps.procs[i].pid = pid
                                           /\ ps.procs[i].state = PROCESS_READY})
        saved == IF ps.procs[ps.current].state = PROCESS_RUNNING
                 THEN [ps.procs EXCEPT ![ps.current].state = PROCESS_READY]
                 ELSE ps.procs
    IN  IF target = -1 THEN ps
        ELSE [procs |-> [saved EXCEPT ![target].state = PROCESS_RUNNING],
              current |-> target,
              cr3 |-> saved[target].cr3]

\* process_schedule scanning the table from slot 0 instead of from the slot
\* after the current one
process_schedule_from_start(ps, ticks, last_sched) ==
    IF ULess(ticks - last_sched, SCHEDULE_TICKS)
    THEN [ps |-> ps, last_schedule |-> last_sched]
    ELSE LET ready == {i \in Slots \ {ps.current} :
                          ps.procs[i].state = PROCESS_READY}
         IN  [ps |-> IF ready = {} THEN ps
                     ELSE process_switch(ps, ps.procs[LowestOf(ready)].pid),
              last_schedule |-> ticks]

\* the result is [ps, last_schedule]
process_schedule(ps, ticks, last_sched) ==
    IF ULess(ticks - last_sched, SCHEDULE_TICKS)
    THEN [ps |-> ps, last_schedule |-> last_sched]
    ELSE LET After(k) == (ps.current + k) % PROCESS_SLOTS
             ready == {k \in 1 .. PROCESS_SLOTS - 1 :
                          ps.procs[After(k)].state = PROCESS_READY}
         IN  [ps |-> IF ready = {} THEN ps
                     ELSE process_switch(ps, ps.procs[After(LowestOf(ready))].pid),
              last_schedule |-> ticks]

\* the first slot whose pid field equals the argument becomes a zombie
process_kill(procs, pid) ==
    LET i == FirstSlot({j \in Slots : procs[j].pid = pid})
    IN  IF i = -1 THEN procs
        ELSE [procs EXCEPT ![i].state = PROCESS_ZOMBIE]

process_init(procs, npid) ==
    [procs |-> [i \in Slots |->
                   IF i = 0
                   THEN [procs[0] EXCEPT !.pid = npid,
                                         !.parent_pid = 0,
                                         !.state = PROCESS_RUNNING,
                                         !.cr3 = KERNEL_PAGE_DIRECTORY,
                                         !.page_directory = KERNEL_PAGE_DIRECTORY]
                   ELSE [procs[i] EXCEPT !.state = PROCESS_UNUSED]],
     next_pid |-> npid + 1]

\* the result is [pg, procs, next_pid]
test_user_space(pg, procs, npid, current) ==
    LET Test(c, a) ==
            [pg |-> IF a.ret # 0
                    THEN paging_map_page(a.pg, USER_BASE + PAGE_SIZE, a.ret,
                                         PAGE_PRESENT + PAGE_WRITE + PAGE_USER)
                    ELSE a.pg,
             procs |-> c.procs,
             next_pid |-> c.next_pid]
        Created(c) == Test(c, paging_alloc_frame(c.pg))
    IN  Created(process_create(pg, procs, npid, current))

\* memory_init, process_init and test_user_space, in the order of kernel_main
kernel_main(pg, procs, npid, current) ==
    LET Boot(pg1, p) == test_user_space(pg1, p.procs, p.next_pid, current)
    IN  Boot(paging_init(pg), process_init(procs, npid))

\* lines 357-370 of usermode_syscall_handlers.c; st is [pg, pages, failed]
RECURSIVE brk_loop(_, _, _)
brk_loop(st, current_brk, new_brk) ==
    IF ~ULess(current_brk, new_brk) THEN st
    ELSE LET Got(a) ==
                 IF a.ret = 0
                 THEN [st EXCEPT !.pg = a.pg, !.failed = TRUE]
                 ELSE brk_loop(
                          [st EXCEPT
                              !.pg = paging_map_page(
                                         a.pg, current_brk, a.ret,
                                         PAGE_PRESENT + PAGE_WRITE + PAGE_USER),
                              !.pages = @ \cup {current_brk}],
                          current_brk + PAGE_SIZE, new_brk)
         IN  Got(paging_alloc_frame(st.pg))

\* SYSCALL_BRK; the result is [pg, procs, ret, pages], ret the value in eax
syscall_brk(pg, procs, current, new_brk) ==
    LET Done(st) ==
            IF st.failed
            THEN [pg |-> st.pg, procs |-> procs, ret |-> -1, pages |-> st.pages]
            ELSE [pg |-> st.pg,
                  procs |-> [procs EXCEPT ![current].brk = new_brk],
                  ret |-> 0, pages |-> st.pages]
    IN  IF new_brk = 0
        THEN [pg |-> pg, procs |-> procs, ret |-> procs[current].brk,
              pages |-> {}]
        ELSE IF ULess(new_brk, procs[current].brk)
        THEN [pg |-> pg, procs |-> procs, ret |-> -1, pages |-> {}]
        ELSE Done(brk_loop([pg |-> pg, pages |-> {}, failed |-> FALSE],
                           procs[current].brk, new_brk))

(***************************************************************************)
(* State machine of performance_tuning.c                                   *)
(***************************************************************************)
allocVars == <<memory_pool, live, misfreed>>
schedVars == <<processes, ready_queues, current_process, next_pid,
               scheduler_running, tsc, hung, returned>>

NoCall ==
    [op |-> "none", arg |-> 0, class |-> 0, ret |-> 0, out |-> << >>]

InitPT ==
    /\ memory_pool = ZeroPool
    /\ processes = << >>
    /\ ready_queues = [p \in Priorities |-> NULL]
    /\ current_process = NULL
    /\ next_pid = 1
    /\ scheduler_running = 0
    /\ tsc = 0
    /\ hung = FALSE
    /\ returned = {}
    /\ live = << >>
    /\ misfreed = FALSE
    /\ last = NoCall

\* kernel_usermode.c before kernel_main: the statics are zero
InitKernel ==
    /\ memory_bitmap = {}
    /\ memory_total_pages = 0
    /\ memory_used_pages = 0
    /\ kernel_page_directory = << >>
    /\ physical_memory = << >>
    /\ k_processes = [i \in Slots |-> ZeroProcess]
    /\ k_current_process = 0
    /\ k_next_pid = 1
    /\ cr3 = 0
    /\ timer_ticks = 0
    /\ last_schedule = 0
    /\ mapped = << >>
    /\ brk_pages = {}
    /\ frame_frees = 0

\* live without the stacks that the step from procs0 to procs1 freed
WithoutStacksFreed(procs0, procs1) ==
    LET Kept(l) == ~ /\ l.owner \in DOMAIN procs0
                     /\ procs0[l.owner].stack_start = l.ptr
                     /\ procs1[l.owner].stack_start = 0
    IN  SelectSeq(live, Kept)

StackOf(procs, proc) ==
    IF proc = NULL THEN << >>
    ELSE <<[ptr |-> procs[proc].stack_start, size |-> PAGE_SIZE,
            class |-> procs[proc].priority, owner |-> proc]>>

RemoveAt(seq, i) == SubSeq(seq, 1, i - 1) \o SubSeq(seq, i + 1, Len(seq))

PerformanceTuningInit ==
    /\ scheduler_running = 0
    /\ ~hung
    /\ \E d \in TscSteps :
          /\ tsc + d <= MaxTsc
          /\ \E r \in {performance_tuning_init(processes, next_pid, tsc + d)} :
             /\ memory_pool' = r.mp
             /\ processes' = r.procs
             /\ ready_queues' = r.rq
             /\ current_process' = r.current
             /\ next_pid' = r.next_pid
             /\ returned' = returned \cup (IF r.ret = NULL THEN {} ELSE {r.ret})
             /\ live' = StackOf(r.procs, r.ret)
             /\ last' = [NoCall EXCEPT !.op = "init", !.ret = r.ret]
          /\ tsc' = tsc + d
    /\ scheduler_running' = 1
    /\ UNCHANGED <<hung, misfreed, vmVars>>

Malloc(size, class) ==
    /\ scheduler_running = 1
    /\ ~hung
    /\ \E r \in {optimized_malloc(memory_pool, size, class)} :
       /\ memory_pool' = r.mp
       /\ live' = live \o
                  (IF r.ptr = NULL THEN << >>
                   ELSE <<[ptr |-> r.ptr, size |-> AlignSize(size),
                           class |-> class, owner |-> 0]>>)
       /\ last' = [NoCall EXCEPT !.op = "malloc", !.arg = size,
                                 !.class = class, !.ret = r.ptr,
                                 !.out = PoolBefore(memory_pool, class)]
    /\ UNCHANGED <<schedVars, misfreed, vmVars>>

\* a caller frees a pointer it got from optimized_malloc, once
Free(i, class) ==
    /\ memory_pool.fragmentation_count < MaxFrees
    /\ scheduler_running = 1
    /\ ~hung
    /\ i \in 1 .. Len(live)
    /\ live[i].owner = 0
    /\ memory_pool' = optimized_free(memory_pool, live[i].ptr, class)
    /\ live' = RemoveAt(live, i)
    /\ misfreed' = (misfreed \/ class # live[i].class)
    /\ last' = [NoCall EXCEPT !.op = "free", !.arg = live[i].ptr,
                              !.class = class]
    /\ UNCHANGED <<schedVars, vmVars>>

KernelMalloc(size, class) == Malloc(size, class)

KernelFree(i, class) ==
    /\ memory_pool.fragmentation_count < MaxKernelFrees
    /\ Free(i, class)

\* a call of create_process
CreateProcessCall(priority) ==
    /\ scheduler_running = 1
    /\ ~hung
    /\ \E r \in {create_process(processes, memory_pool, next_pid, priority)} :
       /\ processes' = r.procs
       /\ memory_pool' = r.mp
       /\ next_pid' = r.next_pid
       /\ returned' = returned \cup (IF r.ret = NULL THEN {} ELSE {r.ret})
       /\ live' = live \o StackOf(r.procs, r.ret)
       /\ last' = [NoCall EXCEPT !.op = "create", !.class = priority,
                                 !.ret = r.ret]
    /\ UNCHANGED <<ready_queues, current_process, scheduler_running, tsc,
                   hung, misfreed, vmVars>>

CreateProcess(priority) ==
    /\ next_pid <= MaxPid
    /\ CreateProcessCall(priority)

\* the caller of create_process makes the PCB it got Ready
Enqueue(proc) ==
    /\ scheduler_running = 1
    /\ ~hung
    /\ proc \in returned
    /\ processes[proc].state = STATE_CREATED
    /\ \E d \in TscSteps :
          /\ tsc + d <= MaxTsc
          /\ \E r \in {add_to_ready_queue(processes, ready_queues, proc, tsc + d)} :
             /\ processes' = r.procs
             /\ ready_queues' = r.rq
          /\ tsc' = tsc + d
    /\ last' = [NoCall EXCEPT !.op = "enqueue", !.arg = proc]
    /\ UNCHANGED <<allocVars, current_process, next_pid, scheduler_running,
                   hung, returned, vmVars>>

DestroyProcess(proc) ==
    /\ scheduler_running = 1
    /\ ~hung
    /\ proc \in returned
    /\ \E r \in {destroy_process(processes, memory_pool, proc)} :
       /\ processes' = r.procs
       /\ memory_pool' = r.mp
       /\ live' = WithoutStacksFreed(processes, r.procs)
    /\ last' = [NoCall EXCEPT !.op = "destroy", !.arg = proc]
    /\ UNCHANGED <<ready_queues, current_process, next_pid, scheduler_running,
                   tsc, hung, returned, misfreed, vmVars>>

\* a timer tick or a yield calls optimized_scheduler when rdtsc() is now
ScheduleAt(now) ==
    /\ scheduler_running = 1
    /\ ~hung
    /\ \E r \in {optimized_scheduler(processes, ready_queues, memory_pool,
                                    current_process, scheduler_running, now)} :
       /\ processes' = r.procs
       /\ ready_queues' = r.rq
       /\ memory_pool' = r.mp
       /\ current_process' = r.current
       /\ hung' = r.hang
       /\ live' = WithoutStacksFreed(processes, r.procs)
       /\ last' = [NoCall EXCEPT !.op = "schedule", !.ret = r.next,
                                 !.out = [outcome |-> r.outcome,
                                          at_select |-> r.at_select,
                                          starvation_preventions |->
                                              r.starvation_preventions,
                                          refreshed |-> r.refreshed]]
    /\ tsc' = now
    /\ UNCHANGED <<next_pid, scheduler_running, returned, misfreed, vmVars>>

Schedule ==
    \E d \in TscSteps :
        /\ tsc + d <= MaxTsc
        /\ ScheduleAt(tsc + d)

Init == InitPT /\ InitKernel

Next ==
    \/ PerformanceTuningInit
    \/ \E size \in KernelAllocSizes, class \in CallerPriorities :
          KernelMalloc(size, class)
    \/ \E i \in 1 .. Len(live), class \in CallerPriorities :
          KernelFree(i, class)
    \/ \E priority \in CallerPriorities : CreateProcess(priority)
    \/ \E proc \in returned : Enqueue(proc)
    \/ \E proc \in returned : DestroyProcess(proc)
    \/ Schedule

Spec == Init /\ [][Next]_vars

NextAlloc ==
    \/ PerformanceTuningInit
    \/ \E size \in AllocSizes, class \in AllocClasses : Malloc(size, class)
    \/ \E i \in 1 .. Len(live), class \in AllocClasses : Free(i, class)

SpecAlloc == Init /\ [][NextAlloc]_vars

(***************************************************************************)
(* Selection from populated ready queues: the PCBs are as create_process   *)
(* writes them when its stack allocation succeeds, made Ready in pid order *)
(* by add_to_ready_queue, each with the quantum an earlier turn left it.   *)
(***************************************************************************)
\* where the stack of PCB pid would lie in the pool
SelectStack(pid) == POOL_BASE + HEADER_SIZE + (pid - 1) * (HEADER_SIZE + PAGE_SIZE)

RECURSIVE SelectEnqueue(_, _, _, _)
SelectEnqueue(st, pid, prio, ready_at) ==
    IF pid \notin SelectPids THEN st
    ELSE LET p1 == (pid :> new_pcb(pid, prio[pid], SelectStack(pid))) @@ st.procs
             a == add_to_ready_queue(p1, st.rq, pid, ready_at[pid])
         IN  SelectEnqueue(a, pid + 1, prio, ready_at)

InitSelect ==
    \E prio \in [SelectPids -> Priorities],
       slice \in [SelectPids -> SelectSlices],
       ready_at \in [SelectPids -> SelectReadyTimes] :
        /\ \A i, j \in SelectPids : i < j => ready_at[i] < ready_at[j]
        /\ LET q == SelectEnqueue([procs |-> << >>,
                                   rq |-> [p \in Priorities |-> NULL]],
                                  1, prio, ready_at) IN
           /\ processes = [pid \in SelectPids |->
                              [q.procs[pid] EXCEPT
                                  !.timeslice_remaining = slice[pid]]]
           /\ ready_queues = q.rq
        /\ memory_pool = memory_pool_init
        /\ current_process = NULL
        /\ next_pid = Cardinality(SelectPids) + 1
        /\ scheduler_running = 1
        /\ tsc = SelectStart
        /\ hung = FALSE
        /\ returned = SelectPids
        /\ live = << >>
        /\ misfreed = FALSE
        /\ last = NoCall
        /\ InitKernel

SelectSchedule ==
    /\ tsc + 1 <= SelectStart + SelectMaxCalls
    /\ ScheduleAt(tsc + 1)

NextSelect == SelectSchedule

SpecSelect == InitSelect /\ [][NextSelect]_vars

(***************************************************************************)
(* Allocation from populated free lists: FitCount blocks lie one after the *)
(* other from the start of the pool, as split_block lays blocks out, and   *)
(* optimized_free has put each of them on the free list of some class.     *)
(***************************************************************************)
RECURSIVE FitBlock(_, _)
FitBlock(size, k) ==
    IF k = 1 THEN POOL_BASE
    ELSE FitBlock(size, k - 1) + HEADER_SIZE + size[k - 1]

RECURSIVE FitFree(_, _, _, _, _)
FitFree(mp, size, class, order, i) ==
    IF i > FitCount THEN mp
    ELSE FitFree(optimized_free(mp, FitBlock(size, order[i]) + HEADER_SIZE,
                                class[order[i]]),
                 size, class, order, i + 1)

InitFit ==
    /\ \E size \in [1 .. FitCount -> FitSizes],
          class \in [1 .. FitCount -> AllocClasses],
          order \in [1 .. FitCount -> 1 .. FitCount] :
          /\ \A i, j \in 1 .. FitCount : order[i] = order[j] => i = j
          /\ memory_pool =
                 FitFree([ZeroPool EXCEPT
                             !.hdr = [b \in {FitBlock(size, k) :
                                                 k \in 1 .. FitCount} |->
                                         [size |-> size[CHOOSE k \in 1 .. FitCount :
                                                            FitBlock(size, k) = b],
                                          flags |-> 1,
                                          next |-> NULL, prev |-> NULL]]],
                         size, class, order, 1)
    /\ processes = << >>
    /\ ready_queues = [p \in Priorities |-> NULL]
    /\ current_process = NULL
    /\ next_pid = 1
    /\ scheduler_running = 1
    /\ tsc = 0
    /\ hung = FALSE
    /\ returned = {}
    /\ live = << >>
    /\ misfreed = FALSE
    /\ last = NoCall
    /\ InitKernel

FitMalloc(size, class) ==
    /\ Len(live) < FitMaxLive
    /\ Malloc(size, class)

NextFit == \E size \in AllocSizes, class \in AllocClasses : FitMalloc(size, class)

SpecFit == InitFit /\ [][NextFit]_vars

(***************************************************************************)
(* Long runs of the allocator: one caller allocates a block and frees it   *)
(* again, over and over, so that optimized_free is called more often than  *)
(* the coalescing threshold. The calls of optimized_free since             *)
(* memory_pool_init are counted in the history record.                     *)
(***************************************************************************)
InitCycle ==
    /\ memory_pool = memory_pool_init
    /\ processes = << >>
    /\ ready_queues = [p \in Priorities |-> NULL]
    /\ current_process = NULL
    /\ next_pid = 1
    /\ scheduler_running = 1
    /\ tsc = 0
    /\ hung = FALSE
    /\ returned = {}
    /\ live = << >>
    /\ misfreed = FALSE
    /\ last = [NoCall EXCEPT !.out = [frees |-> 0]]
    /\ InitKernel

CycleMalloc(size, class) ==
    /\ live = << >>
    /\ \E r \in {optimized_malloc(memory_pool, size, class)} :
       /\ memory_pool' = r.mp
       /\ live' = (IF r.ptr = NULL THEN << >>
                   ELSE <<[ptr |-> r.ptr, size |-> AlignSize(size),
                           class |-> class, owner |-> 0]>>)
       /\ last' = [last EXCEPT !.op = "malloc", !.arg = size,
                               !.class = class, !.ret = r.ptr]
    /\ UNCHANGED <<schedVars, misfreed, vmVars>>

CycleFree(class) ==
    /\ live # << >>
    /\ last.out.frees < CycleFrees
    /\ memory_pool' = optimized_free(memory_pool, live[1].ptr, class)
    /\ live' = << >>
    /\ misfreed' = (misfreed \/ class # live[1].class)
    /\ last' = [last EXCEPT !.op = "free", !.arg = live[1].ptr,
                            !.class = class, !.ret = 0,
                            !.out = [frees |-> last.out.frees + 1]]
    /\ UNCHANGED <<schedVars, vmVars>>

NextCycle ==
    \/ \E size \in CycleSizes, class \in CycleClasses : CycleMalloc(size, class)
    \/ \E class \in CycleClasses : CycleFree(class)

SpecCycle == InitCycle /\ [][NextCycle]_vars

(***************************************************************************)
(* Starvation: a Realtime PCB is Ready from the start, a Low PCB is made   *)
(* Ready by its creator at some later time, and optimized_scheduler is     *)
(* called every AgingStep ticks. Both PCBs are as create_process writes    *)
(* them when its stack allocation succeeds.                                *)
(***************************************************************************)
InitAging ==
    /\ \E a \in {add_to_ready_queue(
                     (1 :> new_pcb(1, PRIORITY_REALTIME, SelectStack(1)))
                         @@ (2 :> new_pcb(2, PRIORITY_LOW, SelectStack(2))),
                     [p \in Priorities |-> NULL], 1, 0)} :
          /\ processes = a.procs
          /\ ready_queues = a.rq
    /\ memory_pool = memory_pool_init
    /\ current_process = NULL
    /\ next_pid = 3
    /\ scheduler_running = 1
    /\ tsc = 0
    /\ hung = FALSE
    /\ returned = {1, 2}
    /\ live = << >>
    /\ misfreed = FALSE
    /\ last = NoCall
    /\ InitKernel

\* the creator of a PCB makes it Ready
AgingEnqueue(proc) ==
    /\ scheduler_running = 1
    /\ ~hung
    /\ proc \in returned
    /\ processes[proc].state = STATE_CREATED
    /\ \E r \in {add_to_ready_queue(processes, ready_queues, proc, tsc)} :
          /\ processes' = r.procs
          /\ ready_queues' = r.rq
    /\ last' = [NoCall EXCEPT !.op = "enqueue", !.arg = proc]
    /\ UNCHANGED <<allocVars, current_process, next_pid, scheduler_running,
                   tsc, hung, returned, vmVars>>

AgingSchedule ==
    /\ tsc + AgingStep <= AgingMaxCalls * AgingStep
    /\ ScheduleAt(tsc + AgingStep)

NextAging ==
    \/ \E proc \in returned : AgingEnqueue(proc)
    \/ AgingSchedule

SpecAging == InitAging /\ [][NextAging]_vars

(***************************************************************************)
(* State machine of kernel_usermode.c                                      *)
(***************************************************************************)
SetPaging(pg) ==
    /\ memory_bitmap' = pg.memory_bitmap
    /\ memory_total_pages' = pg.memory_total_pages
    /\ memory_used_pages' = pg.memory_used_pages
    /\ kernel_page_directory' = pg.kernel_page_directory
    /\ physical_memory' = pg.physical_memory
    /\ mapped' = pg.mapped

procVars == <<k_processes, k_current_process, k_next_pid, cr3>>
timerVars == <<timer_ticks, last_schedule>>

\* the initialisation of kernel_main, up to its halt loop
KernelMain ==
    /\ memory_total_pages = 0
    /\ \E b \in {kernel_main(Paging, k_processes, k_next_pid,
                             k_current_process)} :
          /\ SetPaging(b.pg)
          /\ k_processes' = b.procs
          /\ k_next_pid' = b.next_pid
          /\ last' = [NoCall EXCEPT !.op = "kernel_main",
                                    !.out = [allocs |-> b.pg.allocs]]
    /\ cr3' = KERNEL_PAGE_DIRECTORY
    /\ UNCHANGED <<k_current_process, timerVars, brk_pages, frame_frees,
                   ptVars>>

\* kernel code calls paging_alloc_frame
AllocFrame ==
    /\ memory_total_pages # 0
    /\ \E a \in {paging_alloc_frame(Paging)} :
          /\ SetPaging(a.pg)
          /\ last' = [NoCall EXCEPT !.op = "alloc_frame", !.ret = a.ret,
                                    !.out = [allocs |-> a.pg.allocs]]
    /\ UNCHANGED <<procVars, timerVars, brk_pages, frame_frees, ptVars>>

\* kernel code calls paging_free_frame on a frame in use
FreeFrame(addr) ==
    /\ memory_total_pages # 0
    /\ frame_frees < MaxFrameFrees
    /\ Shr(addr, 12) \in memory_bitmap
    /\ SetPaging(paging_free_frame(Paging, addr))
    /\ frame_frees' = frame_frees + 1
    /\ last' = [NoCall EXCEPT !.op = "free_frame", !.arg = addr,
                              !.out = [allocs |-> << >>]]
    /\ UNCHANGED <<procVars, timerVars, brk_pages, ptVars>>

\* kernel code calls paging_map_page
MapPage(virt, phys, flags) ==
    /\ memory_total_pages # 0
    /\ \E pg \in {paging_map_page(Paging, virt, phys, flags)} :
          /\ SetPaging(pg)
          /\ last' = [NoCall EXCEPT !.op = "map_page", !.arg = virt,
                                    !.out = [allocs |-> pg.allocs,
                                             phys |-> phys, flags |-> flags]]
    /\ UNCHANGED <<procVars, timerVars, brk_pages, frame_frees, ptVars>>

\* init runs kernel_main, which makes no system call: the caller of a
\* system call is a process that process_create made
UserRunning ==
    /\ memory_total_pages # 0
    /\ k_processes[k_current_process].state = PROCESS_RUNNING
    /\ k_processes[k_current_process].page_directory # KERNEL_PAGE_DIRECTORY

\* SYSCALL_FORK
ForkCall ==
    /\ UserRunning
    /\ \E c \in {process_create(Paging, k_processes, k_next_pid,
                                k_current_process)} :
          /\ SetPaging(c.pg)
          /\ k_processes' = c.procs
          /\ k_next_pid' = c.next_pid
          /\ last' = [NoCall EXCEPT !.op = "process_create", !.ret = c.ret,
                                    !.out = [allocs |-> c.pg.allocs]]
    /\ UNCHANGED <<k_current_process, cr3, timerVars, brk_pages, frame_frees,
                   ptVars>>

SysFork ==
    /\ k_next_pid <= MaxUserPid
    /\ ForkCall

\* SYSCALL_BRK
SysBrk(new_brk) ==
    /\ UserRunning
    /\ \E b \in {syscall_brk(Paging, k_processes, k_current_process,
                             new_brk)} :
          /\ SetPaging(b.pg)
          /\ k_processes' = b.procs
          /\ brk_pages' = brk_pages \cup
                 {<<k_processes[k_current_process].pid, v>> : v \in b.pages}
          /\ last' = [NoCall EXCEPT !.op = "brk", !.arg = new_brk,
                                    !.ret = b.ret,
                                    !.out = [allocs |-> b.pg.allocs]]
    /\ UNCHANGED <<k_current_process, k_next_pid, cr3, timerVars,
                   frame_frees, ptVars>>

\* SYSCALL_EXIT: process_kill and process_switch are both handed the value
\* of current_process, an index of the table, and the constant 0
SysExit ==
    /\ UserRunning
    /\ \E r \in {process_switch(
                     [procs |-> process_kill(k_processes, k_current_process),
                      current |-> k_current_process,
                      cr3 |-> cr3], 0)} :
          /\ k_processes' = r.procs
          /\ k_current_process' = r.current
          /\ cr3' = r.cr3
    /\ last' = [NoCall EXCEPT !.op = "exit", !.arg = k_current_process,
                              !.out = [allocs |-> << >>]]
    /\ UNCHANGED <<memory_bitmap, memory_total_pages, memory_used_pages,
                   kernel_page_directory, physical_memory, mapped, k_next_pid,
                   timerVars, brk_pages, frame_frees, ptVars>>

\* page_fault_handler_c with PF_USER set in the error code; the handler then
\* halts until the next interrupt
PageFault ==
    /\ UserRunning
    /\ k_processes' = process_kill(k_processes, k_current_process)
    /\ last' = [NoCall EXCEPT !.op = "page_fault", !.arg = k_current_process,
                              !.out = [allocs |-> << >>]]
    /\ UNCHANGED <<memory_bitmap, memory_total_pages, memory_used_pages,
                   kernel_page_directory, physical_memory, mapped, k_next_pid,
                   k_current_process, cr3, timerVars, brk_pages, frame_frees,
                   ptVars>>

\* SYSCALL_YIELD
SysYield ==
    /\ UserRunning
    /\ \E r \in {process_switch([procs |-> k_processes,
                                 current |-> k_current_process,
                                 cr3 |-> cr3], 0)} :
          /\ k_processes' = r.procs
          /\ k_current_process' = r.current
          /\ cr3' = r.cr3
    /\ last' = [NoCall EXCEPT !.op = "yield", !.arg = k_current_process,
                              !.out = [allocs |-> << >>]]
    /\ UNCHANGED <<memory_bitmap, memory_total_pages, memory_used_pages,
                   kernel_page_directory, physical_memory, mapped, k_next_pid,
                   timerVars, brk_pages, frame_frees, ptVars>>

\* timer_handler
TimerTick ==
    /\ memory_total_pages # 0
    /\ timer_ticks < MaxTicks
    /\ \E r \in {process_schedule([procs |-> k_processes,
                                   current |-> k_current_process,
                                   cr3 |-> cr3],
                                  timer_ticks + 1, last_schedule)} :
          /\ k_processes' = r.ps.procs
          /\ k_current_process' = r.ps.current
          /\ cr3' = r.ps.cr3
          /\ last_schedule' = r.last_schedule
    /\ timer_ticks' = timer_ticks + 1
    /\ last' = [NoCall EXCEPT !.op = "timer", !.out = [allocs |-> << >>]]
    /\ UNCHANGED <<memory_bitmap, memory_total_pages, memory_used_pages,
                   kernel_page_directory, physical_memory, mapped, k_next_pid,
                   brk_pages, frame_frees, ptVars>>

\* the values of the break a process asks for
BrkRequests ==
    LET brk == k_processes[k_current_process].brk IN
    {0, brk - PAGE_SIZE} \cup {brk + n * PAGE_SIZE : n \in BrkGrowth}

\* the kernel boots and kernel code calls the frame and page-table functions
NextVM ==
    \/ KernelMain
    \/ AllocFrame
    \/ \E i \in FreedFrames : FreeFrame(i * PAGE_SIZE)
    \/ \E virt \in MapVirts, phys \in MapPhys, flags \in MapFlags :
          MapPage(virt, phys, flags)

SpecVM == Init /\ [][NextVM]_vars

\* the kernel boots, the timer ticks and user processes make system calls
NextProc ==
    \/ KernelMain
    \/ SysFork
    \/ \E new_brk \in BrkRequests : SysBrk(new_brk)
    \/ TimerTick
    \/ SysExit
    \/ PageFault
    \/ SysYield

SpecProc == Init /\ [][NextProc]_vars

(***************************************************************************)
(* Blocking. Nothing in performance_tuning.c assigns STATE_BLOCKED; the    *)
(* PCB life cycle has the transition from Running to Blocked, made by code *)
(* outside the scheduler while the process runs. The runs are those of the *)
(* starvation configuration, with that transition added.                   *)
(***************************************************************************)
BlockCurrent ==
    /\ scheduler_running = 1
    /\ ~hung
    /\ current_process # NULL
    /\ processes[current_process].state = STATE_RUNNING
    /\ processes' = [processes EXCEPT ![current_process].state = STATE_BLOCKED]
    /\ last' = [NoCall EXCEPT !.op = "block", !.arg = current_process]
    /\ UNCHANGED <<memory_pool, live, misfreed, ready_queues, current_process,
                   next_pid, scheduler_running, tsc, hung, returned, vmVars>>

NextBlock ==
    \/ NextAging
    \/ BlockCurrent

SpecBlock == InitAging /\ [][NextBlock]_vars

(***************************************************************************)
(* Filling the process tables. performance_tuning.c and kernel_usermode.c  *)
(* are separate programs, each with its own table: a run starts one of     *)
(* them and creates processes until the table is full and beyond.         *)
(* performance_tuning.c starts at the beginning or when the first process  *)
(* of kernel_usermode.c has filled the table in its first time slice.      *)
(***************************************************************************)
TableBoot ==
    /\ scheduler_running = 0
    /\ KernelMain

TableFork ==
    /\ scheduler_running = 0
    /\ ForkCall

TableTick ==
    /\ scheduler_running = 0
    /\ TimerTick

TableInit ==
    /\ \/ memory_total_pages = 0
       \/ /\ \A i \in Slots : k_processes[i].state # PROCESS_UNUSED
          /\ last.op = "process_create" /\ last.ret = 0
          /\ timer_ticks = SCHEDULE_TICKS
    /\ PerformanceTuningInit

TableCreate(priority) == CreateProcessCall(priority)

TableDestroy(proc) ==
    /\ processes[proc].state # STATE_TERMINATED
    /\ Cardinality({x \in DOMAIN processes :
                       processes[x].state = STATE_TERMINATED})
           < MaxTableDestroys
    /\ DestroyProcess(proc)

NextTable ==
    \/ TableBoot
    \/ TableFork
    \/ TableTick
    \/ TableInit
    \/ \E priority \in TablePriorities : TableCreate(priority)
    \/ \E proc \in returned : TableDestroy(proc)

SpecTable == Init /\ [][NextTable]_vars

(***************************************************************************)
(* Sanity of the model                                                     *)
(***************************************************************************)
FreeListsAcyclic ==
    \A p \in Priorities :
        ~EndsInCycle(memory_pool.hdr, memory_pool.free_list[p], {})

(***************************************************************************)
(* Properties                                                              *)
(***************************************************************************)
Elements(seq) == {seq[i] : i \in 1 .. Len(seq)}

\* the PCBs linked in the ready queue of priority
ReadyQueue(procs, rq, priority) == ListFrom(procs, rq[priority], {})

Linked(procs, rq) ==
    UNION {Elements(ReadyQueue(procs, rq, p)) : p \in Priorities}

\* C1: while every pointer is freed at most once and to the class it came
\* from, no two live allocations share a pointer or overlap in their bytes
C1_NoOverlap ==
    ~misfreed =>
        \A i, j \in 1 .. Len(live) :
            i # j =>
                /\ live[i].ptr # live[j].ptr
                /\ \/ live[i].ptr + live[i].size <= live[j].ptr
                   \/ live[j].ptr + live[j].size <= live[i].ptr

\* a block that was freed has been handed out again, and a further request
\* to its class is refused while it is live
C1_Witness ==
    /\ ~misfreed
    /\ memory_pool.fragmentation_count > 0
    /\ Len(live) = 1
    /\ last.op = "malloc"
    /\ last.class = live[1].class
    /\ last.ret = NULL

\* C6: when optimized_malloc takes a block larger than the rounded request
\* by more than the header and 32 bytes, the leftover becomes a block of
\* size old - rounded - header that the class's free list reaches
C6_RemainderInFreeList ==
    [][(last'.op = "malloc" /\ last'.ret # NULL) =>
          LET block == last'.ret - HEADER_SIZE
              size == AlignSize(last'.arg)
              old == memory_pool.hdr[block].size
              new_block == block + HEADER_SIZE + size
          IN  old > size + HEADER_SIZE + SPLIT_SLACK =>
                  /\ new_block \in
                         Elements(FreeList(memory_pool', last'.class))
                  /\ memory_pool'.hdr[new_block].size
                         = old - size - HEADER_SIZE]_vars

\* C2: every PCB is linked at most once across the ready queues, and a
\* linked PCB is Ready (a Terminated PCB that the next selection pass will
\* drop is let through here; a Running PCB is not)
C2_LinkedOnceAndReady ==
    /\ \A p \in Priorities : ~EndsInCycle(processes, ready_queues[p], {})
    /\ \A p, q \in Priorities :
           p # q => Elements(ReadyQueue(processes, ready_queues, p))
                        \cap Elements(ReadyQueue(processes, ready_queues, q))
                    = {}
    /\ \A x \in Linked(processes, ready_queues) :
           processes[x].state \in {STATE_READY, STATE_TERMINATED}

\* C3: a Terminated PCB stays Terminated and is not linked into a ready
\* queue by any call
C3_TerminatedIsFinal ==
    [][\A x \in DOMAIN processes :
           processes[x].state = STATE_TERMINATED =>
               /\ processes'[x].state = STATE_TERMINATED
               /\ x \in Linked(processes', ready_queues')
                      => x \in Linked(processes, ready_queues)]_vars

\* C5: every call of optimized_scheduler returns
C5_ScheduleReturns == ~hung

\* the Ready PCBs with quantum left in the queue of priority, when
\* select_next_process returned in the last call of optimized_scheduler
CandidatesAtSelect(priority) ==
    LET snap == last.out.at_select IN
    {x \in Elements(ReadyQueue(snap.procs, snap.rq, priority)) :
        /\ snap.procs[x].state = STATE_READY
        /\ snap.procs[x].timeslice_remaining # 0}

Selected ==
    /\ last.op = "schedule"
    /\ last.out.outcome \in {"switch", "stay"}

\* C4: no Ready PCB with quantum left sits in a queue of higher priority
\* than the selected PCB; a High PCB that is Ready with quantum left is the
\* one selected when the PCBs are Low, Normal and High
C4_HighestPrioritySelected ==
    Selected =>
        LET snap == last.out.at_select
            sel == last.ret
        IN  /\ \A p \in Priorities :
                   p > snap.procs[sel].priority => CandidatesAtSelect(p) = {}
            /\ ( /\ \A x \in DOMAIN snap.procs :
                        snap.procs[x].priority
                            \in {PRIORITY_LOW, PRIORITY_NORMAL, PRIORITY_HIGH}
                 /\ CandidatesAtSelect(PRIORITY_HIGH) # {} )
               => sel \in CandidatesAtSelect(PRIORITY_HIGH)

\* the High PCB was selected over Ready Low and Normal PCBs with quantum left
C4_Witness ==
    /\ Selected
    /\ last.ret \in CandidatesAtSelect(PRIORITY_HIGH)
    /\ CandidatesAtSelect(PRIORITY_NORMAL) # {}
    /\ CandidatesAtSelect(PRIORITY_LOW) # {}

\* C7: every page-aligned virt translates to the phys that the last
\* paging_map_page of virt mapped it to
C7_MapThenTranslate ==
    \A virt \in DOMAIN mapped :
        paging_get_physical_address(Paging, virt) = mapped[virt]

\* the paging_alloc_frame calls that the last handler made
FrameCalls ==
    IF last.op \in {"kernel_main", "alloc_frame", "map_page",
                    "process_create", "brk"}
    THEN last.out.allocs
    ELSE << >>

\* C9: a paging_alloc_frame call returns 0 exactly when every bit of the
\* bitmap was set
C9_SentinelIffFull ==
    \A i \in 1 .. Len(FrameCalls) :
        (FrameCalls[i].ret = 0) <=> FrameCalls[i].full

\* the processes with a page directory of their own
UserSlots ==
    {i \in Slots : /\ k_processes[i].state # PROCESS_UNUSED
                   /\ k_processes[i].page_directory # KERNEL_PAGE_DIRECTORY}

\* C8: a page mapped by brk for one process is translated by the page
\* directory of no other process
C8_PrivateAddressSpaces ==
    \A page \in brk_pages : \A b \in UserSlots :
        k_processes[b].pid # page[1] =>
            walk(physical_memory,
                 Table(physical_memory, k_processes[b].page_directory),
                 page[2]) = 0

\* C10: a process_create that paging_alloc_frame refused a frame returns 0
\* and leaves the process table and next_pid as they were
C10_CreateFailsCleanly ==
    [][(/\ last'.op = "process_create"
        /\ \E i \in 1 .. Len(last'.out.allocs) : last'.out.allocs[i].full)
       => (/\ last'.ret = 0
           /\ k_processes' = k_processes
           /\ k_next_pid' = k_next_pid)]_vars

\* C11: a Low PCB that stays Ready while a Realtime PCB is Ready is selected
\* within AgingCalls calls of optimized_scheduler after its wait has
\* exceeded AGING_THRESHOLD (a selected PCB is Running, no longer Ready)
C11_LowSelectedAfterAging ==
    \A x \in DOMAIN processes :
        ( /\ processes[x].priority = PRIORITY_LOW
          /\ processes[x].state = STATE_READY
          /\ x \in Linked(processes, ready_queues) )
        => tsc - processes[x].last_ready_time
               <= AGING_THRESHOLD + AgingCalls * AgingStep

\* the quantum that line 423 gives a PCB
Quantum(pcb) == TIME_QUANTUM_BASE * (pcb.priority + 1)

\* the last step was a call of optimized_scheduler that returned
ScheduleReturned(l) ==
    /\ l.op = "schedule"
    /\ l.out.outcome \notin {"off", "hang"}

\* C12: a call of optimized_scheduler leaves the timeslice_remaining of the
\* Running current PCB strictly smaller, unless it ran down to zero in this
\* call and the PCB was selected again; timeslice_remaining is set to
\* TIME_QUANTUM_BASE * (priority + 1) exactly for the PCB that is selected
\* with a timeslice_remaining of zero, and for no other PCB
C12_QuantumRunsDownThenRefreshed ==
    [][ScheduleReturned(last') =>
          \A x \in DOMAIN processes :
              LET old == processes[x].timeslice_remaining
                  new == processes'[x].timeslice_remaining
                  at_select == IF x = current_process THEN old - 1 ELSE old
                  reset == last'.out.refreshed /\ last'.ret = x
              IN  /\ ( /\ x = current_process
                       /\ processes[x].state = STATE_RUNNING
                       /\ ~reset ) => ULess(new, old)
                  /\ reset <=> (at_select = 0 /\ last'.ret = x)
                  /\ reset => new = Quantum(processes[x])
                  /\ ~reset => new = at_select]_vars

\* the Running current PCB ran its quantum down to zero in the last call
\* and was selected again with a new quantum
C12_Witness ==
    /\ ScheduleReturned(last)
    /\ last.out.refreshed
    /\ last.out.outcome = "stay"
    /\ last.ret = current_process
    /\ processes[current_process].timeslice_remaining
           = Quantum(processes[current_process])

\* the frame that a page-directory or page-table entry references is
\* marked allocated in the bitmap
FrameAllocated(word) == Shr(FrameBase(word), 12) \in memory_bitmap

\* the present entries of a page directory or page table
PresentEntries(table) ==
    {table[i] : i \in {j \in DOMAIN table : HasFlag(table[j], PAGE_PRESENT)}}

\* C13: once paging_init has run, every present entry of the kernel page
\* directory, of a process's page directory and of a page table references
\* a frame whose bit is set in memory_bitmap
C13_PresentEntriesAllocated ==
    memory_total_pages # 0 =>
        /\ \A word \in PresentEntries(kernel_page_directory) :
               FrameAllocated(word)
        /\ \A addr \in DOMAIN physical_memory :
               \A word \in PresentEntries(physical_memory[addr]) :
                   FrameAllocated(word)

\* the places in the free list of class of the blocks that hold size bytes
Fits(mp, size, class) ==
    {i \in 1 .. Len(FreeList(mp, class)) :
        ULessEq(size, mp.hdr[FreeList(mp, class)[i]].size)}

\* place i holds the smallest block of Fits, the first of them in list order
BestFit(mp, size, class, i) ==
    LET list == FreeList(mp, class) IN
    /\ i \in Fits(mp, size, class)
    /\ \A j \in Fits(mp, size, class) :
           /\ ULessEq(mp.hdr[list[i]].size, mp.hdr[list[j]].size)
           /\ mp.hdr[list[j]].size = mp.hdr[list[i]].size => i <= j

\* C14: optimized_malloc returns the smallest block of the class's free
\* list that holds the rounded request, the first of them in list order
\* when several have that size, and NULL only when no block of the list
\* holds the rounded request
C14_BestFit ==
    [][last'.op = "malloc" =>
          LET size == AlignSize(last'.arg)
              list == FreeList(memory_pool, last'.class)
          IN  IF Fits(memory_pool, size, last'.class) = {}
              THEN last'.ret = NULL
              ELSE \E i \in Fits(memory_pool, size, last'.class) :
                      /\ BestFit(memory_pool, size, last'.class, i)
                      /\ last'.ret = list[i] + HEADER_SIZE]_vars

\* two blocks of different sizes held the request, and the one returned was
\* the smaller although the larger came first in the free list
C14_Witness ==
    /\ last.op = "malloc"
    /\ last.ret # NULL
    /\ \E i, j \in 1 .. Len(last.out.free_list) :
          /\ j < i
          /\ last.ret = last.out.free_list[i] + HEADER_SIZE
          /\ ULessEq(AlignSize(last.arg), last.out.sizes[i])
          /\ ULess(last.out.sizes[i], last.out.sizes[j])

\* C15: when the pointer that optimized_malloc just returned is freed to
\* the class it came from, the free bytes that the free lists reach are
\* again what they were before the allocation, less at most the header of
\* a block that a coalescing pass has yet to merge
C15_FreeRestoresFreeBytes ==
    [][( /\ last.op = "malloc"
         /\ last.ret # NULL
         /\ last'.op = "free"
         /\ last'.arg = last.ret
         /\ last'.class = last.class )
       => /\ TotalFreeBytes(memory_pool') <= last.out.free_bytes
          /\ TotalFreeBytes(memory_pool') >= last.out.free_bytes - HEADER_SIZE]_vars

\* C16: after a first allocation of 64 bytes from the pool as
\* memory_pool_init leaves it, an allocation of 128 bytes from the same
\* class succeeds
C16_SecondAllocationSucceeds ==
    [][( /\ last.op = "malloc"
         /\ last.arg = 64
         /\ last.ret # NULL
         /\ last.out.free_bytes = TotalFreeBytes(memory_pool_init)
         /\ last'.op = "malloc"
         /\ last'.arg = 128
         /\ last'.class = last.class )
       => last'.ret # NULL]_vars

\* C17: with every frame allocated, paging_alloc_frame returns 0 and
\* leaves memory_bitmap and memory_used_pages as they were; when one frame
\* is then freed with paging_free_frame, the next paging_alloc_frame
\* succeeds (its result is not the sentinel 0) and returns the address of
\* the frame that was freed
C17_ExhaustThenReuse ==
    [][last'.op = "alloc_frame" =>
          /\ ClearFrames(Paging) = {} =>
                 /\ last'.ret = 0
                 /\ memory_bitmap' = memory_bitmap
                 /\ memory_used_pages' = memory_used_pages
          /\ ( /\ last.op = "free_frame"
               /\ ClearFrames(Paging) = {Shr(last.arg, 12)} )
             => /\ last'.ret = last.arg
                /\ last'.ret # 0
                /\ memory_bitmap' = memory_bitmap \cup {Shr(last.arg, 12)}]_vars

\* C18: a paging_alloc_frame call made while some frame is clear returns
\* PAGE_SIZE times the lowest clear frame index, sets that bit and no
\* other, and adds one to memory_used_pages
C18_LowestClearFrame ==
    [][(last'.op = "alloc_frame" /\ ClearFrames(Paging) # {}) =>
          \E i \in ClearFrames(Paging) :
              /\ \A j \in ClearFrames(Paging) : i <= j
              /\ last'.ret = i * PAGE_SIZE
              /\ memory_bitmap' = memory_bitmap \cup {i}
              /\ memory_used_pages' = memory_used_pages + 1]_vars

\* paging_alloc_frame handed out a frame that had been freed, below frames
\* that are still clear and above frames in use
C18_Witness ==
    /\ last.op = "alloc_frame"
    /\ frame_frees > 0
    /\ Shr(last.ret, 12) \in memory_bitmap
    /\ \E j \in ClearFrames(Paging) : ULess(last.ret, j * PAGE_SIZE)
    /\ \E j \in memory_bitmap : ULess(j * PAGE_SIZE, last.ret)

\* the live mappings of frame: the present entries, reached through a
\* present entry of kernel_page_directory, that reference it
MappingsOf(frame) ==
    {dt \in {d \in DOMAIN kernel_page_directory :
                HasFlag(kernel_page_directory[d], PAGE_PRESENT)}
            \X (0 .. PAGE_ENTRIES - 1) :
        LET word == Entry(Table(physical_memory,
                                FrameBase(kernel_page_directory[dt[1]])),
                          dt[2])
        IN  /\ HasFlag(word, PAGE_PRESENT)
            /\ FrameBase(word) = frame * PAGE_SIZE}

\* C19: once paging_init has run, the bit of a frame is set in
\* memory_bitmap if and only if exactly one live mapping references the
\* frame
C19_BitIffOneMapping ==
    memory_total_pages # 0 =>
        \A frame \in 0 .. memory_total_pages - 1 :
            frame \in memory_bitmap <=> Cardinality(MappingsOf(frame)) = 1

\* C20: when performance_tuning_init has returned, current_process is a
\* PCB of priority High that is linked in the High ready queue, and the
\* scheduler is running
C20_InitProcessSeeded ==
    last.op = "init" =>
        /\ scheduler_running = 1
        /\ current_process # NULL
        /\ current_process \in DOMAIN processes
        /\ processes[current_process].priority = PRIORITY_HIGH
        /\ current_process
               \in Elements(ReadyQueue(processes, ready_queues, PRIORITY_HIGH))

(***************************************************************************)
(* C21: when a user-space page fault or an exit system call occurs, the    *)
(* process-table entry that was current at that moment is the one marked   *)
(* Zombie, and the state of every other entry, Unused slots included, is   *)
(* unchanged.                                                              *)
(***************************************************************************)
C21_CurrentBecomesZombie ==
    [][last'.op \in {"exit", "page_fault"} =>
          /\ k_processes'[k_current_process].state = PROCESS_ZOMBIE
          /\ \A i \in Slots \ {k_current_process} :
                k_processes'[i].state = k_processes[i].state]_vars

\* a step in which process_switch found its target: another slot is
\* current, or the current slot was made Running
SwitchCompleted ==
    \/ k_current_process' # k_current_process
    \/ /\ k_processes'[k_current_process'].state = PROCESS_RUNNING
       /\ k_processes[k_current_process'].state # PROCESS_RUNNING

CoalescedInFree ==
    last'.op = "free" /\ memory_pool'.fragmentation_count = 0

(***************************************************************************)
(* C23: a coalescing pass runs during exactly every 100th call of free     *)
(* since initialisation (the 100th, the 200th, ...) and during no other    *)
(* call of free.                                                           *)
(***************************************************************************)
C23_CoalesceEveryHundredthFree ==
    [][last'.op = "free" =>
          (CoalescedInFree <=> last'.out.frees % COALESCE_THRESHOLD = 0)]_vars

\* the pids of the PCBs enrolled in the two tables
PidsEnrolled == {processes[x].pid : x \in DOMAIN processes}
KernelPidsEnrolled ==
    {k_processes[i].pid : i \in {j \in Slots :
                                    k_processes[j].state # PROCESS_UNUSED}}

\* a call that finds the table full
TableFull == next_pid >= MAX_PROCESSES
KernelTableFull == \A i \in Slots : k_processes[i].state # PROCESS_UNUSED

(***************************************************************************)
(* C24: successful calls of create_process hand out strictly increasing    *)
(* pids, so that no two PCBs ever share a pid, and once the fixed table is *)
(* full create_process returns the failure value and enrols no PCB.        *)
(***************************************************************************)
C24_PidsIncreaseUntilTableFull ==
    [][/\ (last'.op = "create" /\ last'.ret # NULL) =>
              /\ processes'[last'.ret].pid = last'.ret
              /\ \A pid \in PidsEnrolled : pid < processes'[last'.ret].pid
       /\ (last'.op = "create" /\ TableFull) =>
              /\ last'.ret = NULL
              /\ processes' = processes /\ next_pid' = next_pid
       /\ \A x, y \in DOMAIN processes' :
              processes'[x].pid = processes'[y].pid => x = y
       /\ (last'.op = "process_create" /\ last'.ret # 0) =>
              \A pid \in KernelPidsEnrolled : pid < last'.ret
       /\ (last'.op = "process_create" /\ KernelTableFull) =>
              /\ last'.ret = 0
              /\ k_processes' = k_processes /\ k_next_pid' = k_next_pid
       /\ \A i, j \in Slots :
              (/\ k_processes'[i].state # PROCESS_UNUSED
               /\ k_processes'[j].state # PROCESS_UNUSED
               /\ k_processes'[i].pid = k_processes'[j].pid) => i = j]_vars

\* both kinds of table have been filled and a further call has failed, after
\* two successful calls of create_process
C24_Witness ==
    /\ TableFull
    /\ Cardinality({x \in DOMAIN processes :
                       processes[x].stack_start # 0
                       \/ processes[x].state = STATE_TERMINATED}) >= 2
    /\ last.op = "create" /\ last.ret = NULL
    /\ KernelTableFull

(***************************************************************************)
(* C25: a yield system call issued by the Running process while at least   *)
(* one other process is Ready results in a different process becoming      *)
(* Running and the yielding process becoming Ready.                        *)
(***************************************************************************)
C25_YieldSwitches ==
    [][(/\ last'.op = "yield"
        /\ k_processes[k_current_process].state = PROCESS_RUNNING
        /\ \E i \in Slots \ {k_current_process} :
              k_processes[i].state = PROCESS_READY) =>
          /\ k_current_process' # k_current_process
          /\ k_processes'[k_current_process'].state = PROCESS_RUNNING
          /\ k_processes'[k_current_process].state = PROCESS_READY]_vars

(***************************************************************************)
(* C26: after any call of the scheduler that selects a PCB, current_process *)
(* is the selected PCB and its state is Running, also when the selected    *)
(* PCB is the previous current process whose quantum had just expired; and *)
(* in every reachable state at most one PCB has state Running.             *)
(***************************************************************************)
C26_SelectedIsRunningCurrent ==
    /\ (ScheduleReturned(last) /\ last.ret # NULL) =>
           /\ current_process = last.ret
           /\ processes[current_process].state = STATE_RUNNING
    /\ Cardinality({x \in DOMAIN processes :
                       processes[x].state = STATE_RUNNING}) <= 1

\* the PCBs linked in a ready queue that were Ready when select_next_process
\* started in the last call of optimized_scheduler, and those of them that
\* had quantum left: the refresh pass gives quantum to the PCB it returns
\* and to no other
ReadyAtSelect ==
    LET snap == last.out.at_select IN
    {x \in Linked(snap.procs, snap.rq) : snap.procs[x].state = STATE_READY}

QuantumAtSelect ==
    LET with == UNION {CandidatesAtSelect(priority) : priority \in Priorities}
    IN  IF last.out.refreshed THEN with \ {last.ret} ELSE with

C30_BlockedStaysBlocked ==
    [][last'.op = "schedule" =>
          \A x \in DOMAIN processes :
              processes[x].state = STATE_BLOCKED =>
                  /\ processes'[x].state # STATE_READY
                  /\ x \in Linked(processes', ready_queues')
                         => x \in Linked(processes, ready_queues)]_vars

\* the queues that the first pass of select_next_process walked in the last
\* call: from Realtime down to the queue it selected from, or all of them
WalkedQueues ==
    IF last.ret = NULL \/ last.out.refreshed THEN Priorities
    ELSE {p \in Priorities : p >= last.out.at_select.procs[last.ret].priority}

\* next, prev and the head pointer agree along the queue of priority
QueueConsistent(procs, rq, priority) ==
    LET queue == ReadyQueue(procs, rq, priority) IN
    /\ ~EndsInCycle(procs, rq[priority], {})
    /\ \A i \in 1 .. Len(queue) :
           procs[queue[i]].prev = IF i = 1 THEN NULL ELSE queue[i - 1]

(***************************************************************************)
(* C31: destroy_process changes no ready-queue link; when the selection    *)
(* pass walks a priority queue, every Terminated PCB in it is unlinked and *)
(* its stack released, and the remaining PCBs of that queue stay linked in *)
(* their previous relative order with consistent next and prev links and   *)
(* head pointer.                                                           *)
(***************************************************************************)
C31_ReapKeepsQueueOrder ==
    [][/\ last'.op = "destroy" =>
              /\ ready_queues' = ready_queues
              /\ \A x \in DOMAIN processes :
                     /\ processes'[x].next = processes[x].next
                     /\ processes'[x].prev = processes[x].prev
       /\ ScheduleReturned(last') =>
              LET snap == last'.out.at_select
                  Kept(x) == snap.procs[x].state # STATE_TERMINATED
              IN  \A p \in WalkedQueues' :
                      /\ ReadyQueue(snap.procs, snap.rq, p)
                             = SelectSeq(ReadyQueue(processes, ready_queues, p),
                                         Kept)
                      /\ QueueConsistent(snap.procs, snap.rq, p)
                      /\ \A x \in Elements(ReadyQueue(processes, ready_queues, p)) :
                             ~Kept(x) => snap.procs[x].stack_start = 0]_vars

\* the selection pass dropped the Terminated head of a queue and the PCB
\* behind it is the head now
C31_Witness ==
    /\ ScheduleReturned(last)
    /\ LET snap == last.out.at_select IN
       \E x \in DOMAIN snap.procs :
           /\ snap.procs[x].state = STATE_TERMINATED
           /\ x \notin Linked(snap.procs, snap.rq)
           /\ snap.procs[x].next # NULL
           /\ snap.rq[snap.procs[x].priority] = snap.procs[x].next
           /\ snap.procs[snap.procs[x].next].prev = NULL

\* the page table that the directory entry covering virt points to
PageTableOf(directory, mem, virt) ==
    Table(mem, FrameBase(Entry(directory, PageDirIndex(virt))))

\* C32: a paging_map_page call allocates a frame only when the directory
\* entry covering virt is empty; when the entry holds a page table, the call
\* allocates no frame and changes no other entry of that page table
C32_MapAllocatesOnlyNewTable ==
    [][last'.op = "map_page" =>
           LET virt == last'.arg
               entry == Entry(kernel_page_directory, PageDirIndex(virt))
               before == PageTableOf(kernel_page_directory, physical_memory,
                                     virt)
               after == PageTableOf(kernel_page_directory, physical_memory',
                                    virt)
           IN  /\ last'.out.allocs # << >> => entry = 0
               /\ entry # 0 =>
                      /\ last'.out.allocs = << >>
                      /\ \A i \in 0 .. PAGE_ENTRIES - 1 :
                             i # PageTableIndex(virt) =>
                                 Entry(after, i) = Entry(before, i)]_vars

(***************************************************************************)
(* The coalescing pass on populated free lists: CoalesceCount blocks lie   *)
(* back to back in the pool, all handed out, and their holders free them   *)
(* in any order and to any class. fragmentation_count starts so that the   *)
(* last of these calls of optimized_free runs coalesce_blocks.             *)
(***************************************************************************)
CoalesceCount == 3
CoalesceSizes == {64, 128}

InitCoalesce ==
    /\ \E size \in [1 .. CoalesceCount -> CoalesceSizes] :
          /\ memory_pool =
                 [ZeroPool EXCEPT
                     !.hdr = [b \in {FitBlock(size, k) :
                                         k \in 1 .. CoalesceCount} |->
                                 [size |-> size[CHOOSE k \in 1 .. CoalesceCount :
                                                    FitBlock(size, k) = b],
                                  flags |-> 1,
                                  next |-> NULL, prev |-> NULL]],
                     !.fragmentation_count =
                         COALESCE_THRESHOLD + 2 - CoalesceCount]
          /\ live = [k \in 1 .. CoalesceCount |->
                        [ptr |-> FitBlock(size, k) + HEADER_SIZE,
                         size |-> size[k], class |-> PRIORITY_NORMAL,
                         owner |-> 0]]
    /\ processes = << >>
    /\ ready_queues = [p \in Priorities |-> NULL]
    /\ current_process = NULL
    /\ next_pid = 1
    /\ scheduler_running = 1
    /\ tsc = 0
    /\ hung = FALSE
    /\ returned = {}
    /\ misfreed = FALSE
    /\ last = NoCall
    /\ InitKernel

CoalesceFree(i, class) ==
    /\ i \in 1 .. Len(live)
    /\ memory_pool' = optimized_free(memory_pool, live[i].ptr, class)
    /\ live' = RemoveAt(live, i)
    /\ misfreed' = (misfreed \/ class # live[i].class)
    /\ last' = [NoCall EXCEPT !.op = "free", !.arg = live[i].ptr,
                              !.class = class]
    /\ UNCHANGED <<schedVars, vmVars>>

NextCoalesce ==
    \E i \in 1 .. CoalesceCount, class \in AllocClasses : CoalesceFree(i, class)

SpecCoalesce == InitCoalesce /\ [][NextCoalesce]_vars

\* the bytes that the free list of priority covers: the sizes of its blocks
\* and their headers
ListBytes(mp, priority) ==
    SumSizes(mp.hdr, FreeList(mp, priority), 1)
    + HEADER_SIZE * Len(FreeList(mp, priority))

\* some block of the free list of priority ends where its successor begins
AdjacentInList(mp, priority) ==
    LET list == FreeList(mp, priority) IN
    \E i \in 1 .. Len(list) - 1 :
        list[i] + HEADER_SIZE + mp.hdr[list[i]].size = list[i + 1]

\* C33: when optimized_free has run coalesce_blocks, no free list holds a
\* block that ends where its successor in the list begins, and every class's
\* free list covers the bytes it covered before the pass: those before the
\* call and, in the class freed to, the freed block with its header
C33_CoalesceMergesAndKeepsBytes ==
    [][CoalescedInFree =>
           \A p \in Priorities :
               /\ ~AdjacentInList(memory_pool', p)
               /\ ListBytes(memory_pool', p)
                      = ListBytes(memory_pool, p)
                        + (IF p = last'.class
                           THEN HEADER_SIZE
                                + memory_pool.hdr[last'.arg - HEADER_SIZE].size
                           ELSE 0)]_vars

\* a pass has merged three blocks of a free list into one
C33_Witness ==
    /\ last.op = "free"
    /\ memory_pool.fragmentation_count = 0
    /\ \E p \in Priorities :
           /\ Len(FreeList(memory_pool, p)) = 1
           /\ memory_pool.hdr[memory_pool.free_list[p]].size
                  >= 3 * 64 + 2 * HEADER_SIZE

(***************************************************************************)
(* The round-robin scheduler under timer interrupts that never stop.       *)
(* timer_ticks and last_schedule are 32-bit counters that wrap, and        *)
(* process_schedule reads only their difference, which it resets whenever  *)
(* it reaches SCHEDULE_TICKS. The runs keep the low TickBits bits of the   *)
(* two counters, so the counters wrap within a run.                        *)
(***************************************************************************)
TickBits == 4
TickModulus == 2 ^ TickBits

\* process_create is called while k_next_pid <= RoundMaxPid
RoundMaxPid == 3

RoundFork ==
    /\ k_next_pid <= RoundMaxPid
    /\ ForkCall

\* timer_handler
RoundTick ==
    /\ memory_total_pages # 0
    /\ \E elapsed \in {(timer_ticks + 1 - last_schedule) % TickModulus} :
       \E r \in {process_schedule([procs |-> k_processes,
                                   current |-> k_current_process,
                                   cr3 |-> cr3],
                                  last_schedule + elapsed, last_schedule)} :
          /\ k_processes' = r.ps.procs
          /\ k_current_process' = r.ps.current
          /\ cr3' = r.ps.cr3
          /\ last_schedule' = r.last_schedule % TickModulus
    /\ timer_ticks' = (timer_ticks + 1) % TickModulus
    /\ last' = [NoCall EXCEPT !.op = "timer", !.out = [allocs |-> << >>]]
    /\ UNCHANGED <<memory_bitmap, memory_total_pages, memory_used_pages,
                   kernel_page_directory, physical_memory, mapped, k_next_pid,
                   brk_pages, frame_frees, ptVars>>

NextRound ==
    \/ KernelMain
    \/ RoundFork
    \/ RoundTick
    \/ SysExit

\* the timer interrupt keeps arriving
SpecRound == Init /\ [][NextRound]_vars /\ WF_vars(RoundTick)

\* the timer ticks counted since process_schedule last went past its check
TicksSinceSchedule == (timer_ticks - last_schedule) % TickModulus

(***************************************************************************)
(* C34: under repeated timer ticks every Ready process gets a turn: a      *)
(* process that is Ready becomes Running later on, unless it is killed     *)
(* first; process_schedule switches only when SCHEDULE_TICKS ticks have    *)
(* passed since it last went past its check, so at most once in 10 ticks;  *)
(* and the entry it makes Running was Ready, never Unused or Zombie.       *)
(***************************************************************************)
C34_RoundRobinTurns ==
    /\ \A i \in Slots :
           (k_processes[i].state = PROCESS_READY)
               ~> (k_processes[i].state \in {PROCESS_RUNNING, PROCESS_ZOMBIE})
    /\ [][last'.op = "timer" =>
              /\ k_current_process' # k_current_process =>
                     /\ TicksSinceSchedule = SCHEDULE_TICKS - 1
                     /\ last_schedule' = timer_ticks'
              /\ \A i \in Slots :
                     /\ k_processes'[i].state = PROCESS_RUNNING
                     /\ k_processes[i].state # PROCESS_RUNNING
                     => k_processes[i].state = PROCESS_READY]_vars

\* the scheduler has just gone round the table: past a Zombie in slot 0 to
\* the process in slot 1, while the process in slot 2 waits for its turn
C34_Witness ==
    /\ last.op = "timer"
    /\ last_schedule = timer_ticks
    /\ k_current_process = 1
    /\ k_processes[1].state = PROCESS_RUNNING
    /\ k_processes[0].state = PROCESS_ZOMBIE
    /\ k_processes[2].state = PROCESS_READY

(***************************************************************************)
(* C35: a call of optimized_scheduler that finds current_process Running   *)
(* with quantum left after the call's own decrement does not switch to a   *)
(* PCB of strictly lower priority.                                         *)
(***************************************************************************)
C35_NoPreemptionByLowerPriority ==
    [][/\ ScheduleReturned(last')
       /\ current_process # NULL
       /\ processes[current_process].state = STATE_RUNNING
       /\ ULess(1, processes[current_process].timeslice_remaining)
       /\ current_process' # current_process
       => processes'[current_process'].priority
              >= processes[current_process].priority]_vars

(***************************************************************************)
(* Whole quanta: after performance_tuning_init, PCBs of Normal priority    *)
(* are created, made Ready and destroyed by their creators, and            *)
(* optimized_scheduler is called often enough for a quantum to run out.    *)
(***************************************************************************)
\* create_process is called while next_pid <= QuantumMaxPid
QuantumMaxPid == 2

\* optimized_scheduler is called while rdtsc() is below QuantumMaxCalls
QuantumMaxCalls == 34

QuantumCreate ==
    /\ next_pid <= QuantumMaxPid
    /\ CreateProcessCall(PRIORITY_NORMAL)

QuantumSchedule ==
    /\ tsc + 1 <= QuantumMaxCalls
    /\ ScheduleAt(tsc + 1)

NextQuantum ==
    \/ PerformanceTuningInit
    \/ QuantumCreate
    \/ \E proc \in returned : AgingEnqueue(proc)
    \/ \E proc \in returned : DestroyProcess(proc)
    \/ QuantumSchedule

SpecQuantum == Init /\ [][NextQuantum]_vars

\* C36: the timeslice_remaining of every PCB is at most its quantum,
\* TIME_QUANTUM_BASE * (priority + 1), as a 32-bit unsigned value
C36_QuantumNeverWraps ==
    \A x \in DOMAIN processes :
        ULessEq(processes[x].timeslice_remaining,
                TIME_QUANTUM_BASE * (processes[x].priority + 1))

\* some block was pushed on a free list while it was in one: it is its own
\* successor's predecessor in a list that runs in a circle, or it is reached
\* from the heads of two classes
FreedTwice(mp) ==
    \/ \E p \in Priorities : EndsInCycle(mp.hdr, mp.free_list[p], {})
    \/ \E p \in Priorities :
           /\ mp.free_list[p] # NULL
           /\ \E q \in Priorities :
                  /\ p < q
                  /\ mp.free_list[q] # NULL
                  /\ Elements(FreeList(mp, p)) \cap Elements(FreeList(mp, q)) # {}

\* the PCBs whose stack a step released: stack_start went from set to 0
StacksReleased(procs0, procs1) ==
    {x \in DOMAIN procs0 : procs0[x].stack_start # 0 /\ procs1[x].stack_start = 0}

(***************************************************************************)
(* C37: a stack is returned to the allocator at most once: a call of       *)
(* destroy_process or of the scheduler calls optimized_free once for each  *)
(* PCB whose stack_start it clears and not at all for a PCB whose          *)
(* stack_start is 0 already, and no block ends up twice in the free lists. *)
(***************************************************************************)
C37_StackFreedOnce ==
    [][last'.op \in {"destroy", "schedule"} =>
           /\ memory_pool'.fragmentation_count
                  = memory_pool.fragmentation_count
                    + Cardinality(StacksReleased(processes, processes'))
           /\ StacksReleased(processes, processes') = {}
                  => memory_pool' = memory_pool
           /\ ~FreedTwice(memory_pool')]_vars

\* a PCB was destroyed by its creator and then reaped by the scheduler, and
\* its stack lies in the free list of its class
C37_Witness ==
    /\ ScheduleReturned(last)
    /\ \E x \in returned :
           /\ last.out.at_select.procs[x].state = STATE_TERMINATED
           /\ x \notin Linked(last.out.at_select.procs, last.out.at_select.rq)
           /\ processes[x].last_ready_time # 0
           /\ processes[x].stack_start = 0
           /\ FreeList(memory_pool, processes[x].priority)
                  = <<POOL_BASE>>

\* C38: a call of create_process that fails for want of a stack, the table
\* not being full, leaves next_pid and every PCB as they were
C38_FailedCreateLeavesNoTrace ==
    [][/\ last'.op = "create"
       /\ last'.ret = NULL
       /\ next_pid < MAX_PROCESSES
       => /\ next_pid' = next_pid
          /\ processes' = processes]_vars

(***************************************************************************)
(* Requests of any size: optimized_malloc is called on the populated free  *)
(* lists of SpecFit with sizes from both ends of the 32-bit range.         *)
(***************************************************************************)
AlignSizes ==
    {1, CACHE_LINE_SIZE, CACHE_LINE_SIZE + 1, 256, 257,
     UINT32_MAX - CACHE_LINE_SIZE, UINT32_MAX - CACHE_LINE_SIZE + 1,
     UINT32_MAX - CACHE_LINE_SIZE + 2, UINT32_MAX}

AlignMalloc(size, class) ==
    /\ Len(live) < FitMaxLive
    /\ Malloc(size, class)

NextAlign ==
    \E size \in AlignSizes, class \in AllocClasses : AlignMalloc(size, class)

SpecAlign == InitFit /\ [][NextAlign]_vars

(***************************************************************************)
(* C39: for a request of any 32-bit size, the size rounded up to the cache *)
(* line is not below the request; a block that optimized_malloc returns    *)
(* has at least the requested size, and a request above the size of every  *)
(* block in the free list of its class fails.                              *)
(***************************************************************************)
C39_RoundingNeverShrinks ==
    [][last'.op = "malloc" =>
           LET size == last'.arg
               list == FreeList(memory_pool, last'.class)
           IN  /\ ULessEq(size, AlignSize(size))
               /\ last'.ret # NULL =>
                      ULessEq(size,
                              memory_pool'.hdr[last'.ret - HEADER_SIZE].size)
               /\ (\A b \in Elements(list) : ULess(memory_pool.hdr[b].size, size))
                      => last'.ret = NULL]_vars
=========================================================================
